---- MODULE Spec2Model ----
(***************************************************************************)
(* Verification model of three presentation components of qwc2:            *)
(*   - QtDesignerForm (src/components/QtDesignerForm.jsx): form loading,   *)
(*     parsing of the Qt Designer tree, widget naming conventions;         *)
(*   - MapInfoTooltip (src/plugins/MapInfoTooltip.jsx): right-click popup  *)
(*     with elevation / map-info lookups;                                  *)
(*   - CoordinateDisplayer (src/unnamed/part_001).                         *)
(*                                                                         *)
(* Conventions.  An optional JavaScript value (null / undefined / a value) *)
(* is a sequence of length 0 or 1.  A JavaScript string that the code      *)
(* splits or slices is a sequence of one-character strings.  React calls   *)
(* componentDidUpdate after every committed props or state change; a       *)
(* setState on an unmounted class component is dropped by React.           *)
(***************************************************************************)
EXTENDS Integers, Sequences, FiniteSets, TLC

VARIABLES
    \* ---- QtDesignerForm instance
    fPhase,         \* "constructed" | "mounted" | "unmounted"
    fProps,         \* [form, version, other]: props.form, props.feature.__version__, any other prop
    fState,         \* this.state: [formdata, formData, loading, loadingReqId]
    fGets,          \* GETs of the form document in flight: set of [id, form, version]
    fGetCount,      \* number of axios.get(url) calls made so far
    fUuid,          \* number of uuidv1() values drawn so far
    fCallbacks,     \* preprocessor callbacks not yet invoked: set of [reqId, get, form]
    FormPreprocessors, \* the module-level registry: set of edit layer ids with a preprocessor
    relationTables, \* store slice written by props.setRelationTables: optional [get, form]
    reactBatched,   \* TRUE: setState inside a promise callback is deferred (React >= 18)
    fLast,          \* history: the handler that ran last, [op, get]
    \* ---- MapInfoTooltip instance
    tMounted,       \* the instance is mounted
    tProps,         \* [enabled, click]: props.enabled, props.map.click (optional [pixel, button, id])
    tPrevProps,     \* the props of the previous commit, handed to componentDidUpdate
    tPending,       \* a commit has happened whose componentDidUpdate has not run yet
    tState,         \* this.state: [point, elevation, extraInfo, height]
    tReqs,          \* lookups in flight: set of [kind, for, n]
    tReqCount,      \* number of axios.get calls made so far
    tClickCount,    \* number of click events delivered through map.click so far
    tConfig,        \* [elevation, mapinfo]: elevationServiceUrl / mapInfoService configured
    tLast,          \* history: the handler that ran last, [op, branch, for]
    \* ---- renderWidget applied to one combo box
    kTokens,        \* the tokens the widget name is composed of (after the kvrel prefix)
    kWidget,        \* the widget: [class, name]
    kPrefix,        \* props.mapPrefix
    kField,         \* the EditComboField rendered for the widget (optional)
    \* ---- parseForm applied to one document
    pDoc,           \* json.ui.widget as the XML parser returns it
    pEnv,           \* [fields, mapPrefix]: the keys of props.fields, props.mapPrefix
    pParsed,        \* the result of parseForm (optional): json and the relation tables
    pBetween,       \* the result of parseForm for another document, fetched later (optional)
    pAgain,         \* the result of parseForm for the document fetched once more (optional)
    \* ---- renderNRelation applied to one relation widget
    rTokens,        \* the tokens the widget name is composed of (after the nrel prefix)
    rWidget,        \* the parsed widget: [class, name, property]
    rProps,         \* [readOnly, mapPrefix, rows]: props.readOnly, props.mapPrefix and the
                    \* number of features of feature.relationValues[dataset]
    rTable,         \* what renderNRelation returned (optional)
    \* ---- renderLayout applied to one parsed layout
    lLayout,        \* the layout: [class, item]
    lStyle,         \* the container style computed for it (optional):
                    \* [gridTemplateColumns, gridTemplateRows]
    \* ---- buildErrMsg applied to one relation record
    eRecord,        \* the record: [error, error_details (optional)]
    eMessage,       \* the message built for it (optional)
    \* ---- CoordinateDisplayer instances and the map they listen to
    cPhase,         \* per instance: "new" | "mounted" | "unmounted"
    cState,         \* per instance: this.state, [mousePos]
    cListeners,     \* the 'pointermove' listeners of the map, in the order of registration:
                    \* sequence of instances (the getMapMousePos of that instance)
    cLast,          \* history: [op, invoked]: the step taken last and the instances whose
                    \* listener the map called in it
    \* ---- the rows of one relation table, rendered by renderNRelation
    wTable,         \* the name of the relation table (parts[1] of the nrel widget's name)
    wWidget,        \* the widget of the row: [class, name, buttonGroup (optional)]
    wField,         \* the property of the row the widget is made for
    wRows,          \* feature.relationValues[dataset].features: sequence of rows, each
                    \* the set of [key, val] of its properties
    wMain,          \* props.feature.properties: set of [key, val]
    wShown,         \* the elements rendered for the widget, one per row (optional)
    wUpdate,        \* the last call of props.updateRelationField (optional)
    \* ---- the resize handle of a relation table and the window it lives in
    dListeners,     \* listeners registered on ev.view: set of [type, drag]
    dUserSelect,    \* document.body.style.userSelect
    dHeight,        \* container.style.height in px (optional)
    dDrags,         \* per drag started so far: [startHeight, startMouseY]
    dLast           \* history: [op, added, removed]: the event handled last and the
                    \* listeners it registered and removed

fvars == <<fPhase, fProps, fState, fGets, fGetCount, fUuid, fCallbacks,
           FormPreprocessors, relationTables, reactBatched, fLast>>

tvars == <<tMounted, tProps, tPrevProps, tPending, tState, tReqs, tReqCount,
           tClickCount, tConfig, tLast>>

kvars == <<kTokens, kWidget, kPrefix, kField>>

pvars == <<pDoc, pEnv, pParsed, pBetween, pAgain>>

rvars == <<rTokens, rWidget, rProps, rTable>>

lvars == <<lLayout, lStyle>>

evars == <<eRecord, eMessage>>

cvars == <<cPhase, cState, cListeners, cLast>>

wvars == <<wTable, wWidget, wField, wRows, wMain, wShown, wUpdate>>

dvars == <<dListeners, dUserSelect, dHeight, dDrags, dLast>>

vars == <<fvars, tvars, kvars, pvars, rvars, lvars, evars, cvars, wvars, dvars>>

\* the variables of the other components
notForm == <<tvars, kvars, pvars, rvars, lvars, evars, cvars, wvars, dvars>>
notTip == <<fvars, kvars, pvars, rvars, lvars, evars, cvars, wvars, dvars>>
notCombo == <<fvars, tvars, pvars, rvars, lvars, evars, cvars, wvars, dvars>>
notParse == <<fvars, tvars, kvars, rvars, lvars, evars, cvars, wvars, dvars>>
notRelation == <<fvars, tvars, kvars, pvars, lvars, evars, cvars, wvars, dvars>>
notLayout == <<fvars, tvars, kvars, pvars, rvars, evars, cvars, wvars, dvars>>
notErr == <<fvars, tvars, kvars, pvars, rvars, lvars, cvars, wvars, dvars>>
notCoord == <<fvars, tvars, kvars, pvars, rvars, lvars, evars, wvars, dvars>>
notRow == <<fvars, tvars, kvars, pvars, rvars, lvars, evars, cvars, dvars>>
notDrag == <<fvars, tvars, kvars, pvars, rvars, lvars, evars, cvars, wvars>>

\* ------------------------------------------------------------------ bounds
MaxGets == 2
MaxVersion == 1
MaxClicks == 2
MaxTokens == 5
MaxItems == 2
MaxRows == 2
MaxLayoutItems == 2
MaxErrors == 2
MaxInstances == 3

Forms == {"f1", "f2"}
Versions == 0..MaxVersion
EditLayerId == "map.layer"

\* ============================================================ strings
\* A string that the code splits, slices or tests for a prefix is a sequence
\* of one-character strings.

Sep == <<"_", "_">>
S_kvrel == <<"k", "v", "r", "e", "l">>
S_img == <<"i", "m", "g">>
S_btn == <<"b", "t", "n">>
S_nrel == <<"n", "r", "e", "l">>
S_ext == <<"e", "x", "t">>
S_widget == <<"w", "i", "d", "g", "e", "t">>
S_layout == <<"l", "a", "y", "o", "u", "t">>
Colon == <<":">>

\* String.prototype.startsWith
StartsWith(s, prefix) ==
    Len(s) >= Len(prefix) /\ SubSeq(s, 1, Len(prefix)) = prefix

\* the least index at which sep occurs in s, 0 if it does not
IndexOf(s, sep) ==
    LET hits == {i \in 1..(Len(s) - Len(sep) + 1) : SubSeq(s, i, i + Len(sep) - 1) = sep}
    IN  IF hits = {} THEN 0 ELSE CHOOSE i \in hits : \A j \in hits : i <= j

\* String.prototype.split(sep) for a non-empty separator: the pieces between
\* the occurrences of sep, found from left to right without overlap
RECURSIVE Split(_, _)
Split(s, sep) ==
    LET i == IndexOf(s, sep)
    IN  IF i = 0 THEN <<s>>
        ELSE <<SubSeq(s, 1, i - 1)>> \o Split(SubSeq(s, i + Len(sep), Len(s)), sep)

\* Array.prototype.join(sep)
RECURSIVE Join(_, _)
Join(parts, sep) ==
    IF parts = <<>> THEN <<>>
    ELSE IF Len(parts) = 1 THEN parts[1]
    ELSE parts[1] \o sep \o Join(Tail(parts), sep)

\* Array.prototype.slice(begin, end) for 0 <= begin, 0 <= end (0-based, end exclusive)
Slice(arr, begin, end) ==
    LET e == IF end < Len(arr) THEN end ELSE Len(arr)
    IN  IF begin >= e THEN <<>> ELSE SubSeq(arr, begin + 1, e)

\* parts[i] of JavaScript (0-based)
At(parts, i) == parts[i + 1]

\* ============================================================ QtDesignerForm

\* static defaultState (the key is spelled formdata, while parseForm and
\* render use formData); activetabs and relationAddPressed are not modelled
defaultState == [formdata |-> <<>>, loading |-> FALSE, loadingReqId |-> 0]

\* constructor: this.state = QtDesignerForm.defaultState; state.formData is undefined
InitialFormState ==
    [formdata |-> defaultState.formdata, formData |-> <<>>,
     loading |-> defaultState.loading, loadingReqId |-> defaultState.loadingReqId]

\* setState(state => ({...defaultState, activetabs})): merges the keys of defaultState
ResetState(state) ==
    [state EXCEPT !.formdata = defaultState.formdata,
                  !.loading = defaultState.loading,
                  !.loadingReqId = defaultState.loadingReqId]

\* mutant of FormChanged: the feature version is not compared
FormChanged_FormOnly(props, prevProps) == props.form # prevProps.form

\* the condition of componentDidUpdate under which the form is queried
FormChanged(props, prevProps) ==
    props.form # prevProps.form \/ props.version # prevProps.version

\* render(): which of the three branches is taken
Render(state) ==
    IF state.loading THEN "spinner"
    ELSE IF state.formData # <<>> THEN "form"
    ELSE "nothing"

\* the tree a parse of the document of GET g yields (identity of the parse)
ParsedTree(g) == [get |-> g.id, form |-> g.form, pre |-> FALSE]

\* componentDidMount: componentDidUpdate({}); props.form is a string, so the
\* first operand of the condition is true and the form is queried
componentDidMount ==
    /\ fPhase = "constructed"
    /\ fGetCount < MaxGets
    /\ fPhase' = "mounted"
    /\ fState' = ResetState(fState)
    /\ fGetCount' = fGetCount + 1
    /\ fGets' = fGets \cup {[id |-> fGetCount + 1, form |-> fProps.form, version |-> fProps.version]}
    /\ fLast' = [op |-> "mount", get |-> fGetCount + 1]
    /\ UNCHANGED <<fProps, fUuid, fCallbacks, FormPreprocessors, relationTables, reactBatched>>
    /\ UNCHANGED notForm

\* a props update followed by componentDidUpdate(prevProps)
Form_componentDidUpdate(newProps) ==
    /\ fPhase = "mounted"
    /\ newProps # fProps
    /\ fProps' = newProps
    /\ IF FormChanged(newProps, fProps)
       THEN /\ fGetCount < MaxGets
            /\ fState' = ResetState(fState)
            /\ fGetCount' = fGetCount + 1
            /\ fGets' = fGets \cup {[id |-> fGetCount + 1, form |-> newProps.form, version |-> newProps.version]}
            /\ fLast' = [op |-> "update", get |-> fGetCount + 1]
       ELSE /\ UNCHANGED <<fState, fGetCount, fGets>>
            /\ fLast' = [op |-> "update", get |-> 0]
    /\ UNCHANGED <<fPhase, fUuid, fCallbacks, FormPreprocessors, relationTables, reactBatched>>
    /\ UNCHANGED notForm

\* the state commit of parseForm: setState({formData, loading: false, loadingReqId: null})
CommitForm(state, tree) ==
    [state EXCEPT !.formData = <<tree>>, !.loading = FALSE, !.loadingReqId = 0]

\* the guard of the preprocessor callback: this.state.loadingReqId === loadingReqId
IsCurrentRequest(state, reqId) == state.loadingReqId = reqId

\* mutant of parseForm: with a registered preprocessor the raw parse is
\* committed at once, before the callback is invoked
parseForm_CommitBeforeCallback(g, wellFormed, sync, rewritten) ==
    LET loadingReqId == fUuid + 1
        mounted == fPhase = "mounted"
        json == ParsedTree(g)
        loadingState == IF mounted
                        THEN [fState EXCEPT !.loading = TRUE, !.loadingReqId = loadingReqId]
                        ELSE fState
        hasPre == EditLayerId \in FormPreprocessors
    IN  /\ g \in fGets
        /\ fGets' = fGets \ {g}
        /\ fUuid' = loadingReqId
        /\ IF ~wellFormed
           THEN /\ fState' = loadingState
                /\ UNCHANGED <<fCallbacks, relationTables>>
           ELSE /\ fState' = IF mounted THEN CommitForm(loadingState, json) ELSE fState
                /\ IF hasPre /\ ~sync
                   THEN fCallbacks' = fCallbacks \cup
                            {[reqId |-> loadingReqId, get |-> g.id, form |-> g.form]}
                   ELSE UNCHANGED fCallbacks
                /\ relationTables' = <<[get |-> g.id, form |-> g.form]>>
        /\ fLast' = [op |-> "parseForm", get |-> g.id]
        /\ UNCHANGED <<fPhase, fProps, fGetCount, FormPreprocessors, reactBatched>>
        /\ UNCHANGED notForm

\* axios.get(url).then(response => this.parseForm(response.data)) for GET g.
\*   wellFormed: the document has ui.widget (otherwise reformatWidget throws
\*               after the first setState and the catch handler logs);
\*   sync:       a registered preprocessor invokes its callback before returning;
\*   rewritten:  the preprocessor passes a tree other than the raw parse.
parseForm(g, wellFormed, sync, rewritten) ==
    LET loadingReqId == fUuid + 1
        mounted == fPhase = "mounted"
        json == ParsedTree(g)
        formData == [json EXCEPT !.pre = rewritten]
        loadingState == IF mounted
                        THEN [fState EXCEPT !.loading = TRUE, !.loadingReqId = loadingReqId]
                        ELSE fState
        \* this.state as seen by code running inside parseForm
        seenState == IF reactBatched THEN fState ELSE loadingState
        hasPre == EditLayerId \in FormPreprocessors
    IN  /\ g \in fGets
        /\ fGets' = fGets \ {g}
        /\ fUuid' = loadingReqId
        /\ IF ~wellFormed
           THEN /\ fState' = loadingState
                /\ UNCHANGED <<fCallbacks, relationTables>>
           ELSE /\ IF hasPre
                   THEN IF sync
                        THEN /\ fState' = IF mounted /\ IsCurrentRequest(seenState, loadingReqId)
                                          THEN CommitForm(loadingState, formData)
                                          ELSE loadingState
                             /\ UNCHANGED fCallbacks
                        ELSE /\ fState' = loadingState
                             /\ fCallbacks' = fCallbacks \cup
                                    {[reqId |-> loadingReqId, get |-> g.id, form |-> g.form]}
                   ELSE /\ fState' = IF mounted THEN CommitForm(loadingState, json) ELSE fState
                        /\ UNCHANGED fCallbacks
                /\ relationTables' = <<[get |-> g.id, form |-> g.form]>>
        /\ fLast' = [op |-> "parseForm", get |-> g.id]
        /\ UNCHANGED <<fPhase, fProps, fGetCount, FormPreprocessors, reactBatched>>
        /\ UNCHANGED notForm

\* a registered preprocessor invokes callback(formData) some time after parseForm returned
PreprocessorCallback(cb, rewritten) ==
    /\ cb \in fCallbacks
    /\ fCallbacks' = fCallbacks \ {cb}
    /\ fState' = IF fPhase = "mounted" /\ IsCurrentRequest(fState, cb.reqId)
                 THEN CommitForm(fState, [get |-> cb.get, form |-> cb.form, pre |-> rewritten])
                 ELSE fState
    /\ fLast' = [op |-> "callback", get |-> cb.get]
    /\ UNCHANGED <<fPhase, fProps, fGets, fGetCount, fUuid, FormPreprocessors,
                   relationTables, reactBatched>>
    /\ UNCHANGED notForm

\* axios.get(url) rejects: .catch(e => console.log(e))
FormGetFail(g) ==
    /\ g \in fGets
    /\ fGets' = fGets \ {g}
    /\ fLast' = [op |-> "getFail", get |-> g.id]
    /\ UNCHANGED <<fPhase, fProps, fState, fGetCount, fUuid, fCallbacks,
                   FormPreprocessors, relationTables, reactBatched>>
    /\ UNCHANGED notForm

registerFormPreprocessor(editLayerId) ==
    /\ editLayerId \notin FormPreprocessors
    /\ FormPreprocessors' = FormPreprocessors \cup {editLayerId}
    /\ fLast' = [op |-> "register", get |-> 0]
    /\ UNCHANGED <<fPhase, fProps, fState, fGets, fGetCount, fUuid, fCallbacks,
                   relationTables, reactBatched>>
    /\ UNCHANGED notForm

removeFormPreprocessor(editLayerId) ==
    /\ editLayerId \in FormPreprocessors
    /\ FormPreprocessors' = FormPreprocessors \ {editLayerId}
    /\ fLast' = [op |-> "remove", get |-> 0]
    /\ UNCHANGED <<fPhase, fProps, fState, fGets, fGetCount, fUuid, fCallbacks,
                   relationTables, reactBatched>>
    /\ UNCHANGED notForm

\* componentWillUnmount: clears two caches; requests in flight are not cancelled
Form_componentWillUnmount ==
    /\ fPhase = "mounted"
    /\ fPhase' = "unmounted"
    /\ fLast' = [op |-> "unmount", get |-> 0]
    /\ UNCHANGED <<fProps, fState, fGets, fGetCount, fUuid, fCallbacks,
                   FormPreprocessors, relationTables, reactBatched>>
    /\ UNCHANGED notForm

\* ============================================================ MapInfoTooltip

\* props.map.click.pixel: three pixels, differing in x only, in y only, in both
Pixels == {<<0, 0>>, <<0, 1>>, <<1, 0>>}
Buttons == {0, 2}
\* response.data.elevation, in tenths of a metre: 0 m and 7.5 m
Elevations == {0, 75}

\* defaultProps: elevationPrecision: 0
elevationPrecision == 0

\* line 91: Math.round(elevation * Math.pow(10, precision)) / Math.pow(10, precision),
\* for a value in tenths and a precision of 0 or 1 (Math.round rounds a half up)
RoundElevation(val, precision) ==
    IF precision >= 1 THEN val ELSE 10 * ((val + 5) \div 10)

\* state = {point: null, elevation: null, extraInfo: null}; height is the key
\* that clear() writes
InitialTipState == [point |-> <<>>, elevation |-> <<>>, extraInfo |-> <<>>, height |-> <<>>]

\* clear: setState({point: null, height: null, extraInfo: null})
clear(state) == [state EXCEPT !.point = <<>>, !.height = <<>>, !.extraInfo = <<>>]

\* line 73: !this.props.enabled && this.state.point
DisabledWithPoint(props, state) == ~props.enabled /\ state.point # <<>>

\* mutant of NoRightClick: the button of the click is not looked at
NoRightClick_AnyButton(newPoint) == newPoint = <<>>

\* line 78: !newPoint || newPoint.button !== 2
NoRightClick(newPoint) == newPoint = <<>> \/ newPoint[1].button # 2

\* mutant of IsNewPixel: the click objects are compared instead of their pixels
IsNewPixel_ByIdentity(oldPoint, newPoint) == oldPoint # newPoint

\* line 84: !oldPoint || oldPoint.pixel[0] !== newPoint.pixel[0] || oldPoint.pixel[1] !== newPoint.pixel[1]
IsNewPixel(oldPoint, newPoint) ==
    \/ oldPoint = <<>>
    \/ oldPoint[1].pixel[1] # newPoint[1].pixel[1]
    \/ oldPoint[1].pixel[2] # newPoint[1].pixel[2]

\* line 85: setState({point: newPoint, elevation: null})
ShowPoint(state, newPoint) == [state EXCEPT !.point = newPoint, !.elevation = <<>>]

\* lines 86-99: the lookups issued for a new point, numbered from n + 1
Lookups(config, newPoint, n) ==
    (IF config.elevation
     THEN {[kind |-> "elevation", for |-> newPoint[1].id, n |-> n + 1]} ELSE {})
    \cup
    (IF config.mapinfo
     THEN {[kind |-> "mapinfo", for |-> newPoint[1].id,
            n |-> n + (IF config.elevation THEN 2 ELSE 1)]} ELSE {})

\* render(): null without a point; otherwise the popup, with an elevation row
\* if state.elevation is truthy and the rows of state.extraInfo if it is set
PopupShown(state) == state.point # <<>>
ElevationRow(state) == state.elevation # <<>> /\ state.elevation[1].val # 0
ExtraRows(state) == state.extraInfo # <<>>

\* the connected props change: enabled and / or map.click (a new click event
\* at some pixel with some button, or no click)
Tip_PropsUpdate(enabled, newClick, pixel, button) ==
    LET click == IF newClick = "same" THEN tProps.click
                 ELSE IF newClick = "none" THEN <<>>
                 ELSE <<[pixel |-> pixel, button |-> button, id |-> tClickCount + 1]>>
        newProps == [enabled |-> enabled, click |-> click]
    IN  /\ tMounted /\ ~tPending
        /\ newClick = "new" => tClickCount < MaxClicks
        /\ newProps # tProps
        /\ tPrevProps' = tProps
        /\ tProps' = newProps
        /\ tClickCount' = IF newClick = "new" THEN tClickCount + 1 ELSE tClickCount
        /\ tPending' = TRUE
        /\ tLast' = [op |-> "props", branch |-> newClick, for |-> 0]
        /\ UNCHANGED <<tMounted, tState, tReqs, tReqCount, tConfig>>
        /\ UNCHANGED notTip

\* componentDidUpdate(prevProps), run by React after a commit; a setState it
\* makes is committed at once and followed by componentDidUpdate(this.props)
Tip_componentDidUpdate ==
    LET newPoint == tProps.click
        oldPoint == tPrevProps.click
    IN  /\ tMounted /\ tPending
        /\ IF DisabledWithPoint(tProps, tState)
           THEN /\ tState' = clear(tState)
                /\ tPending' = TRUE
                /\ tLast' = [op |-> "didUpdate", branch |-> "disabled", for |-> 0]
                /\ UNCHANGED <<tReqs, tReqCount>>
           ELSE IF NoRightClick(newPoint)
           THEN IF tState.point # <<>>
                THEN /\ tState' = clear(tState)
                     /\ tPending' = TRUE
                     /\ tLast' = [op |-> "didUpdate", branch |-> "noRightClick", for |-> 0]
                     /\ UNCHANGED <<tReqs, tReqCount>>
                ELSE /\ tPending' = FALSE
                     /\ tLast' = [op |-> "didUpdate", branch |-> "idle", for |-> 0]
                     /\ UNCHANGED <<tState, tReqs, tReqCount>>
           ELSE IF IsNewPixel(oldPoint, newPoint)
           THEN /\ tState' = ShowPoint(tState, newPoint)
                /\ tReqs' = tReqs \cup Lookups(tConfig, newPoint, tReqCount)
                /\ tReqCount' = tReqCount + Cardinality(Lookups(tConfig, newPoint, tReqCount))
                /\ tPending' = TRUE
                /\ tLast' = [op |-> "didUpdate", branch |-> "newPoint", for |-> newPoint[1].id]
           ELSE /\ tPending' = FALSE
                /\ tLast' = [op |-> "didUpdate", branch |-> "samePixel", for |-> newPoint[1].id]
                /\ UNCHANGED <<tState, tReqs, tReqCount>>
        /\ tPrevProps' = tProps
        /\ UNCHANGED <<tMounted, tProps, tClickCount, tConfig>>
        /\ UNCHANGED notTip

\* the close icon of the popup (and closePopup of a plugin): onClick={this.clear}
Tip_clearClicked ==
    /\ tMounted /\ ~tPending
    /\ PopupShown(tState)
    /\ tState' = clear(tState)
    /\ tPending' = TRUE
    /\ tPrevProps' = tProps
    /\ tLast' = [op |-> "close", branch |-> "", for |-> 0]
    /\ UNCHANGED <<tMounted, tProps, tReqs, tReqCount, tClickCount, tConfig>>
    /\ UNCHANGED notTip

\* .then(response => this.setState({elevation: round(response.data.elevation)}))
ElevationResponse(r, val) ==
    /\ r \in tReqs /\ r.kind = "elevation"
    /\ ~tPending
    /\ tReqs' = tReqs \ {r}
    /\ IF tMounted
       THEN /\ tState' = [tState EXCEPT !.elevation =
                                <<[val |-> RoundElevation(val, elevationPrecision), for |-> r.for]>>]
            /\ tPending' = TRUE
            /\ tPrevProps' = tProps
       ELSE UNCHANGED <<tState, tPending, tPrevProps>>
    /\ tLast' = [op |-> "elevation", branch |-> "", for |-> r.for]
    /\ UNCHANGED <<tMounted, tProps, tReqCount, tClickCount, tConfig>>
    /\ UNCHANGED notTip

\* .then(response => this.setState({extraInfo: response.data.results}))
MapInfoResponse(r) ==
    /\ r \in tReqs /\ r.kind = "mapinfo"
    /\ ~tPending
    /\ tReqs' = tReqs \ {r}
    /\ IF tMounted
       THEN /\ tState' = [tState EXCEPT !.extraInfo = <<[for |-> r.for]>>]
            /\ tPending' = TRUE
            /\ tPrevProps' = tProps
       ELSE UNCHANGED <<tState, tPending, tPrevProps>>
    /\ tLast' = [op |-> "mapinfo", branch |-> "", for |-> r.for]
    /\ UNCHANGED <<tMounted, tProps, tReqCount, tClickCount, tConfig>>
    /\ UNCHANGED notTip

\* .catch(() => {}) of either lookup
LookupFail(r) ==
    /\ r \in tReqs
    /\ ~tPending
    /\ tReqs' = tReqs \ {r}
    /\ tLast' = [op |-> "fail", branch |-> r.kind, for |-> r.for]
    /\ UNCHANGED <<tMounted, tProps, tPrevProps, tPending, tState, tReqCount, tClickCount, tConfig>>
    /\ UNCHANGED notTip

\* the plugin is unmounted; lookups in flight are not cancelled
Tip_Unmount ==
    /\ tMounted /\ ~tPending
    /\ tMounted' = FALSE
    /\ tLast' = [op |-> "unmount", branch |-> "", for |-> 0]
    /\ UNCHANGED <<tProps, tPrevProps, tPending, tState, tReqs, tReqCount, tClickCount, tConfig>>
    /\ UNCHANGED notTip

\* ============================================================ parseForm: the tree
\* A widget is [class, name, property, attribute, layout, widget, item]:
\* name is <<>> when the element has none; property and attribute are
\* optional lists of [name, value]; layout is optional; widget is the list of
\* child widgets and item the list of <item> children of the widget.
\* A layout is [class, name, item]; an item is [widget, layout, spacer, row,
\* column, rowspan, colspan] with at most one of the first three present.

vFitWidgets == {"QLabel", "QCheckBox", "QRadioButton", "Line", "QDateTimeEdit", "QDateEdit",
                "QTimeEdit", "QPushButton", "QComboBox", "QLineEdit", "QSpinBox",
                "QDoubleSpinBox", "QSlider"}

\* the reduce of lines 687-689: name -> value, a later entry replacing an earlier one
PropsToMap(list) ==
    [k \in {list[i].name : i \in DOMAIN list} |->
        list[CHOOSE i \in DOMAIN list :
                /\ list[i].name = k
                /\ \A j \in DOMAIN list : list[j].name = k => j <= i].value]

\* lines 686-699: widget.property / widget.attribute become a map, {} when absent
NormalizeList(list) ==
    IF list # <<>> THEN <<PropsToMap(list[1])>> ELSE <<PropsToMap(<<>>)>>

\* ":widget_" + n, ":layout_" + n
SyntheticName(kind, n) == <<":">> \o kind \o <<"_", ToString(n)>>

\* mutant of NameOrSynthetic: a missing name stays missing
NameOrSynthetic_Given(name, kind, n) == name

\* lines 707, 751: x.name = x.name || (":kind_" + counter++)
NameOrSynthetic(name, kind, n) ==
    IF name # <<>> THEN name ELSE SyntheticName(kind, n)

\* obj[key] = val
Put(obj, key, val) == {e \in obj : e.key # key} \cup {[key |-> key, val |-> val]}

\* the registries and counters of lines 657-666
InitialRegistries ==
    [relationTables |-> {}, externalFields |-> {}, widgets |-> {}, fields |-> {},
     buttons |-> {}, nrels |-> {}, counters |-> [widget |-> 0, layout |-> 0]]

\* lines 709-726: the widget is entered into the registries under its name
Classify(acc, name, env) ==
    LET parts == Split(name, Sep)
        a1 == IF name \in env.fields
              THEN [acc EXCEPT !.fields = Put(@, name, name)]
              ELSE IF StartsWith(name, S_kvrel \o Sep) \/ StartsWith(name, S_img \o Sep)
              THEN IF At(parts, 1) \in env.fields
                   THEN [acc EXCEPT !.fields = Put(@, At(parts, 1), name)]
                   ELSE acc
              ELSE IF StartsWith(name, S_btn \o Sep)
              THEN [acc EXCEPT !.buttons = Put(@, At(parts, 1), name)]
              ELSE IF StartsWith(name, S_nrel \o Sep)
              THEN [acc EXCEPT !.nrels = Put(@, At(parts, 1), name)]
              ELSE acc
        a2 == IF StartsWith(name, S_ext \o Sep)
              THEN [a1 EXCEPT !.externalFields = @ \cup {SubSeq(name, 6, Len(name))}]
              ELSE a1
    IN  [a2 EXCEPT !.widgets = Put(@, name, name)]

\* mutant of TokenOrNone: an empty token counts as given
TokenOrNone_Raw(parts, i) ==
    IF Len(parts) > i THEN <<At(parts, i)>> ELSE <<>>

\* parts[i] || null, parts[i] || false: the token if it exists and is not empty
TokenOrNone(parts, i) ==
    IF Len(parts) > i /\ At(parts, i) # <<>> THEN <<At(parts, i)>> ELSE <<>>

\* lines 743-746: the relation descriptor of an nrel__ widget
RecordRelation(acc, name, env) ==
    LET parts == Split(name, Sep)
    IN  IF Len(parts) >= 3 /\ At(parts, 0) = S_nrel
        THEN [acc EXCEPT !.relationTables =
                Put(@, env.mapPrefix \o At(parts, 1),
                    [fk |-> At(parts, 2), sortcol |-> TokenOrNone(parts, 3),
                     noreorder |-> TokenOrNone(parts, 4)])]
        ELSE acc

\* line 739: the widget itself asks for the remaining vertical space
FillsVertically(name, widget) ==
    StartsWith(name, S_nrel \o Sep) \/ (widget.layout = <<>> /\ widget.class \notin vFitWidgets)

\* the one element of a singleton set; the result of a nested call is bound
\* as the element of a singleton set, which computes it once
Only(S) == CHOOSE x \in S : TRUE

RECURSIVE reformatWidget(_, _, _)
RECURSIVE reformatLayout(_, _, _)
RECURSIVE reformatItem(_, _, _)
RECURSIVE reformatEach(_, _, _, _)

\* lines 707-726: the name of the widget once its items are done, and the
\* registries after the widget is entered under that name
NamedWidget(widget, items, env) ==
    LET name == NameOrSynthetic(widget.name, S_widget, items.acc.counters.widget)
        acc1 == IF widget.name # <<>> THEN items.acc
                ELSE [items.acc EXCEPT !.counters.widget = @ + 1]
    IN  [name |-> name, acc |-> Classify(acc1, name, env)]

\* lines 685-748; the result is the rewritten widget, the registries and the
\* returned verticalFill
reformatWidget(widget, acc, env) ==
    Only(UNION {UNION {UNION {UNION {
        {[node |-> [class |-> widget.class,
                    name |-> named.name,
                    property |-> NormalizeList(widget.property),
                    attribute |-> NormalizeList(widget.attribute),
                    layout |-> lay.node,
                    widget |-> kids.nodes,
                    item |-> items.nodes],
          acc |-> RecordRelation(kids.acc, named.name, env),
          vf |-> IF FillsVertically(named.name, widget) THEN TRUE
                 ELSE items.vf \/ lay.vf \/ kids.vf]}
        : kids \in {reformatEach("child", widget.widget, lay.acc, env)}}
        : lay \in {IF widget.layout # <<>>
                   THEN Only({[node |-> <<r.node>>, acc |-> r.acc, vf |-> r.vf]
                              : r \in {reformatLayout(widget.layout[1], named.acc, env)}})
                   ELSE [node |-> <<>>, acc |-> named.acc, vf |-> FALSE]}}
        : named \in {NamedWidget(widget, items, env)}}
        : items \in {reformatEach("item", widget.item, acc, env)}})

\* lines 749-771
reformatLayout(layout, acc, env) ==
    LET name == NameOrSynthetic(layout.name, S_layout, acc.counters.layout)
        acc1 == IF layout.name # <<>> THEN acc ELSE [acc EXCEPT !.counters.layout = @ + 1]
    IN  Only({[node |-> [class |-> layout.class, name |-> name, item |-> items.nodes,
                         verticalFill |-> items.vf],
               acc |-> items.acc,
               vf |-> items.vf]
              : items \in {reformatEach("layoutItem", layout.item, acc1, env)}})

\* lines 753-768: one item of a layout
reformatItem(item, acc, env) ==
    IF item.widget # <<>>
    THEN Only({[node |-> [item EXCEPT !.widget = <<r.node>>], acc |-> r.acc, vf |-> r.vf]
               : r \in {reformatWidget(item.widget[1], acc, env)}})
    ELSE IF item.spacer # <<>>
    THEN LET property == PropsToMap(item.spacer[1].property)
         IN  [node |-> [item EXCEPT !.spacer = <<[property |-> property]>>],
              acc |-> acc,
              vf |-> "orientation" \in DOMAIN property
                        /\ property["orientation"] = "Qt::Vertical"]
    ELSE IF item.layout # <<>>
    THEN Only({[node |-> [item EXCEPT !.layout = <<r.node>>], acc |-> r.acc, vf |-> r.vf]
               : r \in {reformatLayout(item.layout[1], acc, env)}})
    ELSE [node |-> item, acc |-> acc, vf |-> FALSE]

\* the three forEach loops: lines 702-704 ("item"), 733-736 ("child", which
\* first overwrites child.name) and 753-768 ("layoutItem")
reformatEach(kind, list, acc, env) ==
    IF list = <<>> THEN [nodes |-> <<>>, acc |-> acc, vf |-> FALSE]
    ELSE Only(UNION {
            {[nodes |-> <<first.node>> \o rest.nodes,
              acc |-> rest.acc,
              vf |-> first.vf \/ rest.vf]
             : rest \in {reformatEach(kind, Tail(list), first.acc, env)}}
            : first \in {IF kind = "item" THEN reformatWidget(Head(list), acc, env)
                         ELSE IF kind = "child"
                         THEN reformatWidget(
                                [Head(list) EXCEPT
                                    !.name = SyntheticName(S_widget, acc.counters.widget)],
                                [acc EXCEPT !.counters.widget = @ + 1], env)
                         ELSE reformatItem(Head(list), acc, env)}})

\* mutant of ParseDocument: the registries are kept from one parse to the next
ParseDocument_Shared(doc, env) ==
    Only({[ui |-> [widget |-> r.node],
           externalFields |-> r.acc.externalFields,
           widgets |-> r.acc.widgets,
           fields |-> r.acc.fields,
           buttons |-> r.acc.buttons,
           nrels |-> r.acc.nrels,
           relationTables |-> r.acc.relationTables]
          : r \in {reformatWidget(doc,
                        IF pBetween = <<>> THEN InitialRegistries
                        ELSE [InitialRegistries EXCEPT
                                !.externalFields = pBetween[1].externalFields,
                                !.fields = pBetween[1].fields,
                                !.buttons = pBetween[1].buttons,
                                !.nrels = pBetween[1].nrels,
                                !.relationTables = pBetween[1].relationTables],
                        env)}})

\* lines 656-673 and 683: json with its registries, and the relation tables
\* handed to props.setRelationTables
ParseDocument(doc, env) ==
    Only({[ui |-> [widget |-> r.node],
           externalFields |-> r.acc.externalFields,
           widgets |-> r.acc.widgets,
           fields |-> r.acc.fields,
           buttons |-> r.acc.buttons,
           nrels |-> r.acc.nrels,
           relationTables |-> r.acc.relationTables]
          : r \in {reformatWidget(doc, InitialRegistries, env)}})

\* ------------------------------------------------------------ documents

Widget(class, name, property, attribute, layout, widget, item) ==
    [class |-> class, name |-> name, property |-> property, attribute |-> attribute,
     layout |-> layout, widget |-> widget, item |-> item]

Prop(name, value) == [name |-> name, value |-> value]

\* a widget without layout, children and items
Leaf(class, name, property) == Widget(class, name, property, <<>>, <<>>, <<>>, <<>>)

ItemOf(widget, layout, spacer) ==
    [widget |-> widget, layout |-> layout, spacer |-> spacer,
     row |-> 0, column |-> 0, rowspan |-> 0, colspan |-> 0]
WidgetItem(w) == ItemOf(<<w>>, <<>>, <<>>)
LayoutItem(l) == ItemOf(<<>>, <<l>>, <<>>)
SpacerItem(orientation) ==
    ItemOf(<<>>, <<>>, <<[property |-> <<Prop("orientation", orientation)>>]>>)
EmptyItem == ItemOf(<<>>, <<>>, <<>>)

Layout(class, name, items) == [class |-> class, name |-> name, item |-> items]

\* the widgets a form is composed of
LineEdit == Leaf("QLineEdit", <<"a">>, <<(<<Prop("placeholderText", "A")>>)>>)
TextEdit == Leaf("QTextEdit", <<>>, <<>>)
KvrelCombo == Leaf("QComboBox", Join(<<S_kvrel, <<"a">>, <<"t">>, <<"k">>, <<"v">>>>, Sep), <<>>)
StaticCombo ==
    Widget("QComboBox", <<"c">>, <<>>, <<>>, <<>>, <<>>,
           <<Widget("", <<>>, <<(<<Prop("text", "A")>>)>>, <<>>, <<>>, <<>>, <<>>)>>)
ExtLabel == Leaf("QLabel", Join(<<S_ext, <<"x">>>>, Sep), <<(<<Prop("text", "X")>>)>>)
Button == Leaf("QPushButton", Join(<<S_btn, <<"g">>>>, Sep),
               <<(<<Prop("text", "Go"), Prop("text", "Run")>>)>>)
Relation(nameTokens) ==
    Widget("QWidget", Join(<<S_nrel>> \o nameTokens, Sep), <<>>, <<>>,
           <<Layout("QHBoxLayout", <<>>,
                    <<WidgetItem(Leaf("QLineEdit", <<"t", "_", "_", "n">>, <<>>))>>)>>,
           <<>>, <<>>)
GroupBox(item) ==
    Widget("QGroupBox", <<"g">>, <<(<<Prop("title", "G")>>)>>, <<>>,
           <<Layout("QVBoxLayout", <<>>, <<item>>)>>, <<>>, <<>>)
Page(name, item) ==
    Widget("QWidget", name, <<>>, <<(<<Prop("title", "T")>>)>>,
           <<Layout("QGridLayout", <<"p", "l">>, <<item>>)>>, <<>>, <<>>)
TabWidget(item1, item2) ==
    Widget("QTabWidget", <<"t", "a", "b", "s">>, <<>>, <<>>, <<>>,
           <<Page(<<"p", "1">>, item1), Page(<<"p", "2">>, item2)>>, <<>>)
StackedWidget(item) ==
    Widget("QStackedWidget", <<>>, <<(<<Prop("currentIndex", "0")>>)>>, <<>>, <<>>,
           <<Page(<<>>, item)>>, <<>>)
Nested(item) == LayoutItem(Layout("QHBoxLayout", <<"h">>, <<item>>))

\* the items the root layout of a document is filled from
ItemPool ==
    {WidgetItem(w) : w \in {LineEdit, TextEdit, KvrelCombo, StaticCombo, ExtLabel, Button,
                            Relation(<<(<<"t">>), (<<"f">>)>>),
                            Relation(<<(<<"u">>), (<<"f">>), (<<"s">>), (<<"1">>)>>),
                            Relation(<<(<<"v">>), (<<"f">>), (<<>>), (<<"1">>)>>),
                            GroupBox(WidgetItem(TextEdit)),
                            TabWidget(WidgetItem(LineEdit), WidgetItem(KvrelCombo)),
                            TabWidget(WidgetItem(GroupBox(WidgetItem(TextEdit))),
                                      SpacerItem("Qt::Vertical")),
                            StackedWidget(WidgetItem(Button))}}
    \cup {SpacerItem("Qt::Vertical"), SpacerItem("Qt::Horizontal"), EmptyItem,
          Nested(Nested(WidgetItem(GroupBox(WidgetItem(StaticCombo)))))}

\* the items placed in rows 0, 1, ... of column 0
Placed(items) == [i \in DOMAIN items |-> [items[i] EXCEPT !.row = i - 1]]

\* json.ui.widget of a document: a root widget with a grid layout of items
Documents ==
    {Widget("QWidget", rootName, <<>>, <<>>,
            <<Layout("QGridLayout", <<>>, Placed(items))>>, <<>>, <<>>) :
        rootName \in {<<>>, <<"F">>},
        items \in UNION {[1..n -> ItemPool] : n \in 1..MaxItems}}

\* the keys of props.fields
FieldIds == {<<"a">>}

\* parseForm(response.data)
Parse_parseForm ==
    /\ pParsed = <<>>
    /\ pParsed' = <<ParseDocument(pDoc, pEnv)>>
    /\ UNCHANGED <<pDoc, pEnv, pBetween, pAgain>>
    /\ UNCHANGED notParse

\* the items of the documents that are fetched more than once
ReparsePool ==
    {WidgetItem(w) : w \in {LineEdit, TextEdit, KvrelCombo, ExtLabel,
                            Relation(<<(<<"u">>), (<<"f">>), (<<"s">>), (<<"1">>)>>),
                            TabWidget(WidgetItem(GroupBox(WidgetItem(TextEdit))),
                                      SpacerItem("Qt::Vertical")),
                            StackedWidget(WidgetItem(Button))}}
    \cup {Nested(Nested(WidgetItem(GroupBox(WidgetItem(StaticCombo)))))}

ReparseDocuments ==
    {doc \in Documents : \A i \in DOMAIN doc.layout[1].item :
        [doc.layout[1].item[i] EXCEPT !.row = 0] \in ReparsePool}

\* the documents of other forms
OtherDocuments ==
    {Widget("QWidget", <<>>, <<>>, <<>>,
            <<Layout("QGridLayout", <<>>, Placed(items))>>, <<>>, <<>>) :
        items \in {<<WidgetItem(Button), WidgetItem(ExtLabel)>>,
                   <<WidgetItem(Relation(<<(<<"t">>), (<<"f">>)>>)), WidgetItem(LineEdit)>>}}

\* parseForm(response.data) for the document of another form
Parse_otherDocument(doc) ==
    /\ pParsed # <<>> /\ pBetween = <<>> /\ pAgain = <<>>
    /\ pBetween' = <<ParseDocument(doc, pEnv)>>
    /\ UNCHANGED <<pDoc, pEnv, pParsed, pAgain>>
    /\ UNCHANGED notParse

\* parseForm(response.data) for the same document, fetched once more
Parse_again ==
    /\ pParsed # <<>> /\ pAgain = <<>>
    /\ pAgain' = <<ParseDocument(pDoc, pEnv)>>
    /\ UNCHANGED <<pDoc, pEnv, pParsed, pBetween>>
    /\ UNCHANGED notParse

\* ============================================================ renderWidget: QComboBox

\* mutant of KvrelFieldId: the slice ends one element later
KvrelFieldId_SliceOff(parts) == Join(Slice(parts, 1, Len(parts) - 2), Sep)

\* line 395: fieldId = parts.slice(1, count - 3).join("__")
KvrelFieldId(parts) == Join(Slice(parts, 1, Len(parts) - 3), Sep)

\* line 397: keyvalrel = mapPrefix + parts[count - 3] + ":" + parts[count - 2] + ":" + parts[count - 1]
KeyValRel(parts, mapPrefix) ==
    mapPrefix \o At(parts, Len(parts) - 3) \o Colon \o At(parts, Len(parts) - 2)
        \o Colon \o At(parts, Len(parts) - 1)

\* lines 387-426: the EditComboField rendered for a QComboBox widget
\* (fieldId, keyvalrel; keyvalrel is absent for a combo with static values)
RenderComboBox(widget, mapPrefix) ==
    LET parts == Split(widget.name, Sep)
    IN  IF (Len(parts) = 5 \/ Len(parts) = 6) /\ At(parts, 0) = S_kvrel
        THEN [fieldId |-> KvrelFieldId(parts), keyvalrel |-> <<KeyValRel(parts, mapPrefix)>>]
        ELSE [fieldId |-> widget.name, keyvalrel |-> <<>>]

\* the tokens a widget name is composed of
Tokens == {<<"a">>, <<"b", "_">>, <<"_", "c">>}
MapPrefixes == {<<>>, <<"m", ".">>}

\* renderWidget(widget, ...) reaches the QComboBox branch
Combo_renderWidget ==
    /\ kField = <<>>
    /\ kWidget.class = "QComboBox"
    /\ kField' = <<RenderComboBox(kWidget, kPrefix)>>
    /\ UNCHANGED <<kTokens, kWidget, kPrefix>>
    /\ UNCHANGED notCombo

\* a form with a combo box named kvrel__<token>__...__<token>
ComboInit ==
    /\ kTokens \in UNION {[1..n -> Tokens] : n \in 3..MaxTokens}
    /\ kWidget = [class |-> "QComboBox", name |-> Join(<<S_kvrel>> \o kTokens, Sep)]
    /\ kPrefix \in MapPrefixes
    /\ kField = <<>>

ComboIdle == ComboInit /\ kTokens = [i \in 1..4 |-> <<"a">>] /\ kPrefix = <<>>

\* ============================================================ renderNRelation

\* line 529: String(widget.property?.enabled) === "false"
RelationDisabled(widget) ==
    /\ widget.property # <<>>
    /\ "enabled" \in DOMAIN widget.property[1]
    /\ widget.property[1]["enabled"] = "false"

\* mutant of ReorderShown: the noreorder token is not looked at
ReorderShown_AnyToken(readOnly, disabled, sortcol, noreorder) ==
    ~readOnly /\ ~disabled /\ sortcol # <<>>

\* line 594: !this.props.readOnly && !disabled && sortcol && !noreorder
ReorderShown(readOnly, disabled, sortcol, noreorder) ==
    ~readOnly /\ ~disabled /\ sortcol # <<>> /\ noreorder = <<>>

\* line 601: !this.props.readOnly && !disabled
DeleteShown(readOnly, disabled) == ~readOnly /\ ~disabled

\* lines 524-620: null for a name of fewer than three parts, else the table:
\* its dataset, per row of the dataset the controls shown, and the add button
renderNRelation(widget, props) ==
    LET parts == Split(widget.name, Sep)
        disabled == RelationDisabled(widget)
        sortcol == TokenOrNone(parts, 3)
        noreorder == TokenOrNone(parts, 4)
    IN  IF Len(parts) < 3 THEN <<>>
        ELSE <<[datasetname |-> props.mapPrefix \o At(parts, 1),
                rows |-> [idx \in 1..props.rows |->
                            [reorder |-> ReorderShown(props.readOnly, disabled, sortcol, noreorder),
                             delete |-> DeleteShown(props.readOnly, disabled)]],
                add |-> ~props.readOnly]>>

\* the tokens of relation widget names, and the enabled property of the widget
RelationTokens == {<<"t">>, <<"1">>, <<>>}
EnabledProperty == {<<>>, <<(<<Prop("enabled", "false")>>)>>, <<(<<Prop("enabled", "true")>>)>>}

\* renderWidget(widget, ...) reaches a widget named nrel__...
Relation_renderWidget ==
    /\ rTable = <<>>
    /\ StartsWith(rWidget.name, S_nrel \o Sep)
    /\ rTable' = <<renderNRelation(rWidget, rProps)>>
    /\ UNCHANGED <<rTokens, rWidget, rProps>>
    /\ UNCHANGED notRelation

\* a parsed form with a relation widget named nrel__<token>__...__<token>
RelationInit ==
    /\ rTokens \in UNION {[1..n -> RelationTokens] : n \in 1..4}
    /\ \E enabled \in EnabledProperty :
         rWidget = [class |-> "QWidget", name |-> Join(<<S_nrel>> \o rTokens, Sep),
                    property |-> NormalizeList(enabled)]
    /\ rProps \in [readOnly : BOOLEAN, mapPrefix : {<<"m", ".">>}, rows : 0..MaxRows]
    /\ rTable = <<>>

RelationIdle ==
    /\ rTokens = <<(<<"t">>), (<<"t">>)>>
    /\ rWidget = [class |-> "QWidget", name |-> Join(<<S_nrel>> \o rTokens, Sep),
                  property |-> NormalizeList(<<>>)]
    /\ rProps = [readOnly |-> FALSE, mapPrefix |-> <<"m", ".">>, rows |-> 0]
    /\ rTable = <<>>

\* ============================================================ renderLayout

hFitWidgets == {"QLabel", "QCheckBox", "QRadioButton", "Line", "QDateTimeEdit", "QDateEdit",
                "QTimeEdit"}

\* item.spacer?.property?.orientation === orientation
IsSpacer(item, orientation) ==
    /\ item.spacer # <<>>
    /\ "orientation" \in DOMAIN item.spacer[1].property
    /\ item.spacer[1].property["orientation"] = orientation

\* item.widget?.class: "" stands for undefined
ClassOf(item) == IF item.widget # <<>> THEN item.widget[1].class ELSE ""

\* mutant of SpanOrOne: a missing span is taken as it is
SpanOrOne_Raw(span) == span

\* parseInt(item.colspan, 10) || 1: a missing span (0) counts as 1
SpanOrOne(span) == IF span = 0 THEN 1 ELSE span

\* arr[idx] = val of a JavaScript array (0-based); the array grows to hold
\* idx, and a cell never assigned reads as "" (undefined)
SetAt(arr, idx, val) ==
    [i \in 1..(IF Len(arr) > idx THEN Len(arr) ELSE idx + 1) |->
        IF i = idx + 1 THEN val ELSE IF i <= Len(arr) THEN arr[i] ELSE ""]

\* arr[idx] ?? null: "" stands for both undefined and null
GetAt(arr, idx) == IF idx < Len(arr) THEN arr[idx + 1] ELSE ""

\* Math.round(1 / n * 100) for n >= 1
RoundedShare(n) == (200 + n) \div (2 * n)

\* 'fit-content(' + Math.round(1 / n * 100) + '%)'
FitContent(n) == "fit-content(" \o ToString(RoundedShare(n)) \o "%)"

\* mutant of ColumnIsAuto: a wide widget claims its column also next to a spacer
ColumnIsAuto_DespiteSpacer(item, hasSpacer, colSpan) ==
    \/ IsSpacer(item, "Qt::Horizontal")
    \/ ClassOf(item) \notin hFitWidgets /\ colSpan = 1

\* lines 213-218: the item makes its column 'auto'
ColumnIsAuto(item, hasSpacer, colSpan) ==
    \/ IsSpacer(item, "Qt::Horizontal")
    \/ ~hasSpacer /\ ClassOf(item) \notin hFitWidgets /\ colSpan = 1

\* lines 210-222: the columns array after the first n items
RECURSIVE ColumnsAfter(_, _, _)
ColumnsAfter(items, useIndex, n) ==
    IF n = 0 THEN <<>>
    ELSE LET item == items[n]
             hasSpacer == \E i \in DOMAIN items : IsSpacer(items[i], "Qt::Horizontal")
             col == IF useIndex THEN n - 1 ELSE item.column
             colSpan == IF useIndex THEN 1 ELSE SpanOrOne(item.colspan)
         IN  Only({IF ColumnIsAuto(item, hasSpacer, colSpan)
                   THEN SetAt(columns, col, "auto")
                   ELSE SetAt(columns, col, GetAt(columns, col))
                   : columns \in {ColumnsAfter(items, useIndex, n - 1)}})

\* lines 206-228
computeLayoutColumns(items, useIndex) ==
    Only({[c \in DOMAIN columns |->
                IF \E i \in DOMAIN columns : columns[i] = "auto"
                THEN (IF columns[c] # "" THEN columns[c] ELSE FitContent(Len(columns)))
                ELSE "auto"]
          : columns \in {ColumnsAfter(items, useIndex, Len(items))}})

\* item.widget?.layout ?? item.layout
LayoutOf(item) ==
    IF item.widget # <<>> /\ item.widget[1].layout # <<>> THEN item.widget[1].layout
    ELSE item.layout

\* lines 232-244: the rows array after the first n items
RECURSIVE RowsAfter(_, _, _)
RowsAfter(items, useIndex, n) ==
    IF n = 0 THEN <<>>
    ELSE LET item == items[n]
             hasSpacer == \E i \in DOMAIN items : IsSpacer(items[i], "Qt::Vertical")
             row == IF useIndex THEN n - 1 ELSE item.row
             rowSpan == IF useIndex THEN 1 ELSE SpanOrOne(item.rowspan)
         IN  Only({IF \/ IsSpacer(item, "Qt::Vertical")
                      \/ item.widget # <<>> /\ StartsWith(item.widget[1].name, S_nrel \o <<"_">>)
                   THEN SetAt(rows, row, "auto")
                   ELSE IF LayoutOf(item) # <<>>
                   THEN SetAt(rows, row, IF LayoutOf(item)[1].verticalFill THEN "auto" ELSE "")
                   ELSE IF ~hasSpacer /\ ClassOf(item) \notin vFitWidgets /\ rowSpan = 1
                   THEN SetAt(rows, row, "auto")
                   ELSE SetAt(rows, row, GetAt(rows, row))
                   : rows \in {RowsAfter(items, useIndex, n - 1)}})

\* lines 229-250
computeLayoutRows(items, useIndex) ==
    Only({[r \in DOMAIN rows |-> IF rows[r] # "" THEN rows[r] ELSE FitContent(Len(rows))]
          : rows \in {RowsAfter(items, useIndex, Len(items))}})

\* lines 150-177: the grid templates of the container; a box layout has no
\* row template, a vertical box layout no template at all
ContainerStyle(layout) ==
    IF layout.class \in {"QGridLayout", "QFormLayout"}
    THEN [gridTemplateColumns |-> <<computeLayoutColumns(layout.item, FALSE)>>,
          gridTemplateRows |-> <<computeLayoutRows(layout.item, FALSE)>>]
    ELSE IF layout.class = "QHBoxLayout"
    THEN [gridTemplateColumns |-> <<computeLayoutColumns(layout.item, TRUE)>>,
          gridTemplateRows |-> <<>>]
    ELSE [gridTemplateColumns |-> <<>>, gridTemplateRows |-> <<>>]

\* the contents of the cells of a layout, as parseForm leaves them
CellPool ==
    {reformatItem(item, InitialRegistries, [fields |-> FieldIds, mapPrefix |-> <<>>]).node :
        item \in {SpacerItem("Qt::Horizontal"), SpacerItem("Qt::Vertical"),
                  WidgetItem(ExtLabel), WidgetItem(LineEdit), WidgetItem(TextEdit),
                  WidgetItem(StaticCombo),
                  WidgetItem(Relation(<<(<<"t">>), (<<"f">>)>>)),
                  WidgetItem(GroupBox(WidgetItem(TextEdit))),
                  WidgetItem(GroupBox(WidgetItem(LineEdit))),
                  Nested(WidgetItem(LineEdit)),
                  [WidgetItem(TextEdit) EXCEPT !.colspan = 2],
                  [WidgetItem(TextEdit) EXCEPT !.rowspan = 2]}}

\* the rows and columns items are placed in
Cells == {0, 1}

\* the items of a layout: cell contents, each placed in a row and a column
LayoutItems == {[c EXCEPT !.row = row, !.column = column] :
                    c \in CellPool, row \in Cells, column \in Cells}

\* renderLayout(layout, ...)
Layout_renderLayout ==
    /\ lStyle = <<>>
    /\ lStyle' = <<ContainerStyle(lLayout)>>
    /\ UNCHANGED lLayout
    /\ UNCHANGED notLayout

\* a parsed grid or horizontal box layout of 1..MaxLayoutItems items
LayoutInit ==
    /\ lLayout \in [class : {"QGridLayout", "QHBoxLayout"},
                    item : UNION {[1..n -> LayoutItems] : n \in 1..MaxLayoutItems}]
    /\ lStyle = <<>>

LayoutIdle ==
    /\ lLayout = [class |-> "QGridLayout",
                  item |-> <<CHOOSE c \in LayoutItems :
                                IsSpacer(c, "Qt::Horizontal") /\ c.row = 0 /\ c.column = 0>>]
    /\ lStyle = <<>>

\* ============================================================ buildErrMsg

\* Array.prototype.join(sep) of an array of strings, as a string
RECURSIVE JoinStrings(_, _)
JoinStrings(list, sep) ==
    IF list = <<>> THEN ""
    ELSE IF Len(list) = 1 THEN list[1]
    ELSE list[1] \o sep \o JoinStrings(Tail(list), sep)

\* message += array: the array is converted by Array.prototype.toString,
\* which joins its elements with ","
ArrayToString(list) == JoinStrings(list, ",")

\* lines 772-786
buildErrMsg(record) ==
    LET errorDetails == IF record.error_details # <<>> THEN record.error_details[1]
                        ELSE [geometry_errors |-> <<>>, data_errors |-> <<>>,
                              validation_errors |-> <<>>]
        m0 == record.error
        m1 == IF errorDetails.geometry_errors # <<>>
              THEN m0 \o ":\n" \o ArrayToString(
                        [i \in DOMAIN errorDetails.geometry_errors |->
                            " - " \o errorDetails.geometry_errors[i].reason \o " at "
                                \o errorDetails.geometry_errors[i].location])
              ELSE m0
        m2 == IF errorDetails.data_errors # <<>>
              THEN m1 \o ":\n - " \o JoinStrings(errorDetails.data_errors, "\n - ")
              ELSE m1
    IN  IF errorDetails.validation_errors # <<>>
        THEN m2 \o ":\n - " \o JoinStrings(errorDetails.validation_errors, "\n - ")
        ELSE m2

\* the sequences of at most MaxErrors elements of a set
ErrorLists(S) == UNION {[1..n -> S] : n \in 0..MaxErrors}

\* the records of relation rows that carry an error
ErrorRecords ==
    [error : {"bad"}, error_details : {<<>>}]
    \cup {[error |-> "bad",
           error_details |-> <<[geometry_errors |-> g, data_errors |-> dd,
                                validation_errors |-> v]>>] :
            g \in ErrorLists({[reason |-> "r", location |-> "l"],
                              [reason |-> "q", location |-> "k"]}),
            dd \in ErrorLists({"x", "y"}),
            v \in ErrorLists({"v", "w"})}

\* renderNRelation builds the status text of a row with feature.error (line 577)
Err_buildErrMsg ==
    /\ eMessage = <<>>
    /\ eMessage' = <<buildErrMsg(eRecord)>>
    /\ UNCHANGED eRecord
    /\ UNCHANGED notErr

ErrInit ==
    /\ eRecord \in ErrorRecords
    /\ eMessage = <<>>

ErrIdle ==
    /\ eRecord = [error |-> "bad", error_details |-> <<>>]
    /\ eMessage = <<>>

\* ============================================================ CoordinateDisplayer

Instances == 1..MaxInstances

\* ev.coordinate of a pointer-move event
Coordinates == {<<0, 0>>, <<1, 2>>}

\* map.on('pointermove', listener): the listener is appended unless it is
\* registered already
Register(listeners, listener) ==
    IF \E i \in DOMAIN listeners : listeners[i] = listener THEN listeners
    ELSE Append(listeners, listener)

\* mutant of Unregister: the listener stays registered
Unregister_Nothing(listeners, listener) == listeners

\* map.un('pointermove', listener)
Unregister(listeners, listener) == SelectSeq(listeners, LAMBDA l : l # listener)

\* lines 26-28
Coord_componentDidMount(i) ==
    /\ cPhase[i] = "new"
    /\ cPhase' = [cPhase EXCEPT ![i] = "mounted"]
    /\ cListeners' = Register(cListeners, i)
    /\ cLast' = [op |-> "mount", invoked |-> {}]
    /\ UNCHANGED cState
    /\ UNCHANGED notCoord

\* lines 29-31
Coord_componentWillUnmount(i) ==
    /\ cPhase[i] = "mounted"
    /\ cPhase' = [cPhase EXCEPT ![i] = "unmounted"]
    /\ cListeners' = Unregister(cListeners, i)
    /\ cLast' = [op |-> "unmount", invoked |-> {}]
    /\ UNCHANGED cState
    /\ UNCHANGED notCoord

\* the map dispatches a pointer-move event: every registered listener runs
\* getMapMousePos (lines 43-45); React drops the setState of an instance that
\* is not mounted
Map_pointermove(coordinate) ==
    /\ cLast' = [op |-> "pointermove",
                 invoked |-> {cListeners[n] : n \in DOMAIN cListeners}]
    /\ cState' = [i \in Instances |->
                    IF (\E n \in DOMAIN cListeners : cListeners[n] = i) /\ cPhase[i] = "mounted"
                    THEN [mousePos |-> coordinate]
                    ELSE cState[i]]
    /\ UNCHANGED <<cPhase, cListeners>>
    /\ UNCHANGED notCoord

\* lines 23-25: no instance is mounted yet, the map has no listener
CoordInit ==
    /\ cPhase = [i \in Instances |-> "new"]
    /\ cState = [i \in Instances |-> [mousePos |-> <<>>]]
    /\ cListeners = <<>>
    /\ cLast = [op |-> "init", invoked |-> {}]

\* ============================================================ renderNRelation: rows

\* obj[key], absent when obj has no such key
Lookup(obj, key) ==
    IF \E e \in obj : e.key = key THEN <<(CHOOSE e \in obj : e.key = key).val>> ELSE <<>>

\* x ?? "" (the empty string is the empty sequence of characters)
OrEmpty(opt) == IF opt = <<>> THEN <<>> ELSE opt[1]

\* lines 561-564: the properties of the row under the keys tablename + "__" + key
relFeature(tablename, properties) ==
    {[key |-> tablename \o Sep \o e.key, val |-> e.val] : e \in properties}

\* line 556: name.slice(tablename.length + 2)
StripTablePrefix(tablename, name) == Slice(name, Len(tablename) + 2, Len(name))

\* lines 555-558: updateField(name, value) of row idx
updateRelationField(tablename, mapPrefix, idx, name, value) ==
    [dataset |-> mapPrefix \o tablename, idx |-> idx,
     fieldname |-> StripTablePrefix(tablename, name), value |-> value]

\* line 642: groupOrName(widget)
groupOrName(widget) ==
    IF widget.buttonGroup # <<>> THEN widget.buttonGroup[1] ELSE widget.name

\* renderWidget(item.widget, relFeature, ...) for the widgets of a row: the
\* element rendered, as [class, field, value, checked], field being the name
\* its change handler hands to updateField and checked being present for
\* buttons only.
\*   QLineEdit (lines 352-372; editTextNullValue is not configured),
\*   QCheckBox / QRadioButton in a button group (lines 373-382),
\*   QComboBox (lines 383-426)
renderRowWidget(widget, properties, mainProperties, mapPrefix) ==
    IF widget.class = "QComboBox"
    THEN LET fieldId == RenderComboBox(widget, mapPrefix).fieldId
         IN  [class |-> widget.class, field |-> fieldId,
              value |-> OrEmpty(Lookup(properties, fieldId)), checked |-> <<>>]
    ELSE IF widget.class \in {"QCheckBox", "QRadioButton"}
    THEN [class |-> widget.class, field |-> groupOrName(widget), value |-> widget.name,
          checked |-> <<Lookup(mainProperties, groupOrName(widget)) = <<widget.name>> >>]
    ELSE [class |-> widget.class, field |-> widget.name,
          value |-> OrEmpty(Lookup(properties, widget.name)), checked |-> <<>>]

\* the names of relation tables and of their fields, and the field values
TableNames == {<<"t">>, <<"t", "_", "b">>}
RowFields == {<<"f">>, <<"g", "_", "h">>}
RowValues == {<<"x">>, <<"y">>}
MaxRelRows == 2

\* the properties of a row: the field the widget is made for (possibly
\* without value) and one other field
RowProperties(field) ==
    {{[key |-> <<"o">>, val |-> <<"y">>]} \cup own :
        own \in {{}} \cup {{[key |-> field, val |-> v]} : v \in RowValues \cup {<<>>}}}

\* the widgets a row is made of, for table t and field f
RowWidgets(t, f) ==
    {[class |-> "QLineEdit", name |-> Join(<<t, f>>, Sep), buttonGroup |-> <<>>],
     [class |-> "QComboBox", name |-> Join(<<S_kvrel, t, f, <<"d">>, <<"k">>, <<"v">>>>, Sep),
      buttonGroup |-> <<>>]}
    \cup {[class |-> c, name |-> v, buttonGroup |-> <<Join(<<t, f>>, Sep)>>] :
            c \in {"QCheckBox", "QRadioButton"}, v \in RowValues}

RowPrefix == <<"m", ".">>

\* lines 554-593: the rows of the table are rendered
Row_render ==
    /\ wShown = <<>>
    /\ wShown' = <<[i \in DOMAIN wRows |->
                      renderRowWidget(wWidget, relFeature(wTable, wRows[i]), wMain, RowPrefix)]>>
    /\ UNCHANGED <<wTable, wWidget, wField, wRows, wMain, wUpdate>>
    /\ UNCHANGED notRow

\* the element of row idx (0-based) is changed to value: a text or a selected
\* key is entered, or a button of a group is chosen
Row_change(idx, value) ==
    /\ wShown # <<>>
    /\ idx + 1 \in DOMAIN wShown[1]
    /\ LET el == wShown[1][idx + 1]
       IN  wUpdate' = <<updateRelationField(wTable, RowPrefix, idx, el.field,
                            IF el.checked # <<>> THEN el.value ELSE value)>>
    /\ UNCHANGED <<wTable, wWidget, wField, wRows, wMain, wShown>>
    /\ UNCHANGED notRow

\* a relation table with 1..MaxRelRows rows and one widget per row; the
\* feature edited in the form has no property named after a row field, or one
RowInit ==
    /\ wTable \in TableNames
    /\ wField \in RowFields
    /\ wWidget \in RowWidgets(wTable, wField)
    /\ wRows \in UNION {[1..n -> RowProperties(wField)] : n \in 1..MaxRelRows}
    /\ wMain \in {{}, {[key |-> Join(<<wTable, wField>>, Sep), val |-> <<"x">>]}}
    /\ wShown = <<>>
    /\ wUpdate = <<>>

RowIdle ==
    /\ wTable = <<"t">>
    /\ wField = <<"f">>
    /\ wWidget = [class |-> "QLineEdit", name |-> <<"t", "_", "_", "f">>, buttonGroup |-> <<>>]
    /\ wRows = <<{}>>
    /\ wMain = {}
    /\ wShown = <<>>
    /\ wUpdate = <<>>

\* ============================================================ startRelationTableResize

MaxDrags == 2
\* container.offsetHeight when a drag starts, and ev.clientY of pointer events
StartHeights == {40, 100}
MouseYs == {0, 50, 200}

\* mutant of ResizedHeight: the height follows the pointer without a minimum
ResizedHeight_Unclamped(drag, clientY) == drag.startHeight + (clientY - drag.startMouseY)

\* line 633: Math.max(30, startHeight + (event.clientY - startMouseY))
ResizedHeight(drag, clientY) ==
    LET h == drag.startHeight + (clientY - drag.startMouseY)
    IN  IF h > 30 THEN h ELSE 30

\* lines 625-641: pointerdown on the resize handle of a table whose container
\* exists; the two listeners are closures made for this drag
Drag_pointerdown(offsetHeight, clientY) ==
    LET n == Len(dDrags) + 1
        added == {[type |-> "pointermove", drag |-> n], [type |-> "pointerup", drag |-> n]}
    IN  /\ n <= MaxDrags
        /\ dDrags' = Append(dDrags, [startHeight |-> offsetHeight, startMouseY |-> clientY])
        /\ dUserSelect' = "none"
        /\ dListeners' = dListeners \cup added
        /\ dLast' = [op |-> "pointerdown", added |-> added, removed |-> {}]
        /\ UNCHANGED dHeight
        /\ UNCHANGED notDrag

\* the window dispatches pointermove: the resizeInput of every drag that is
\* registered runs, in the order of registration (lines 632-634)
Window_pointermove(clientY) ==
    LET moving == {l.drag : l \in {m \in dListeners : m.type = "pointermove"}}
    IN  /\ dHeight' = IF moving = {} THEN dHeight
                      ELSE LET last == CHOOSE n \in moving : \A m \in moving : m <= n
                           IN  <<ResizedHeight(dDrags[last], clientY)>>
        /\ dLast' = [op |-> "pointermove", added |-> {}, removed |-> {}]
        /\ UNCHANGED <<dListeners, dUserSelect, dDrags>>
        /\ UNCHANGED notDrag

\* the window dispatches pointerup: every registered pointerup listener runs
\* (lines 637-640) and, being registered with once: true, is removed
Window_pointerup ==
    LET ending == {l.drag : l \in {m \in dListeners : m.type = "pointerup"}}
        removed == {l \in dListeners : l.drag \in ending}
    IN  /\ dListeners' = dListeners \ removed
        /\ dUserSelect' = IF ending = {} THEN dUserSelect ELSE ""
        /\ dLast' = [op |-> "pointerup", added |-> {}, removed |-> removed]
        /\ UNCHANGED <<dHeight, dDrags>>
        /\ UNCHANGED notDrag

\* no drag has started
DragInit ==
    /\ dListeners = {}
    /\ dUserSelect = ""
    /\ dHeight = <<>>
    /\ dDrags = <<>>
    /\ dLast = [op |-> "init", added |-> {}, removed |-> {}]

\* a document has been fetched for a form with the given fields and map prefix
ParseInit ==
    /\ pDoc \in Documents
    /\ pEnv = [fields |-> FieldIds, mapPrefix |-> <<"m", ".">>]
    /\ pParsed = <<>>
    /\ pBetween = <<>>
    /\ pAgain = <<>>

\* a document that will be fetched more than once
ReparseInit ==
    /\ pDoc \in ReparseDocuments
    /\ pEnv = [fields |-> FieldIds, mapPrefix |-> <<"m", ".">>]
    /\ pParsed = <<>>
    /\ pBetween = <<>>
    /\ pAgain = <<>>

ParseIdle ==
    /\ pDoc = Leaf("QWidget", <<>>, <<>>)
    /\ pEnv = [fields |-> FieldIds, mapPrefix |-> <<>>]
    /\ pParsed = <<>>
    /\ pBetween = <<>>
    /\ pAgain = <<>>

\* the form renderer after construction, before it is mounted
FormInit ==
    /\ fPhase = "constructed"
    /\ fProps \in [form : Forms, version : {0}, other : {FALSE}]
    /\ fState = InitialFormState
    /\ fGets = {}
    /\ fGetCount = 0
    /\ fUuid = 0
    /\ fCallbacks = {}
    /\ FormPreprocessors = {}
    /\ relationTables = <<>>
    /\ reactBatched \in BOOLEAN
    /\ fLast = [op |-> "init", get |-> 0]

\* the tooltip after it is mounted (componentDidUpdate does not run on mount)
TipInit ==
    /\ tMounted = TRUE
    /\ tProps \in [enabled : BOOLEAN, click : {<<>>}]
    /\ tPrevProps = tProps
    /\ tPending = FALSE
    /\ tState = InitialTipState
    /\ tReqs = {}
    /\ tReqCount = 0
    /\ tClickCount = 0
    /\ tConfig \in [elevation : BOOLEAN, mapinfo : BOOLEAN]
    /\ tLast = [op |-> "init", branch |-> "", for |-> 0]

\* one initial state of each component, for the specifications of the others
FormIdle == FormInit /\ fProps.form = "f1" /\ reactBatched
TipIdle == TipInit /\ tProps.enabled /\ tConfig = [elevation |-> TRUE, mapinfo |-> TRUE]

\* the initial states of the components other than the form and the tooltip
MoreIdle == RowIdle /\ DragInit
OthersIdle == ComboIdle /\ ParseIdle /\ RelationIdle /\ LayoutIdle /\ ErrIdle /\ CoordInit /\ MoreIdle

Init == FormInit /\ TipInit /\ ComboInit /\ ParseInit /\ RelationInit /\ LayoutInit /\ ErrInit /\ CoordInit
        /\ RowInit /\ DragInit
InitForm == TipIdle /\ OthersIdle /\ FormInit
InitTip == FormIdle /\ OthersIdle /\ TipInit
InitCombo == FormIdle /\ TipIdle /\ ParseIdle /\ RelationIdle /\ LayoutIdle /\ ErrIdle /\ CoordInit /\ MoreIdle
        /\ ComboInit
InitParse == FormIdle /\ TipIdle /\ ComboIdle /\ RelationIdle /\ LayoutIdle /\ ErrIdle /\ CoordInit /\ MoreIdle
        /\ ParseInit
InitReparse == FormIdle /\ TipIdle /\ ComboIdle /\ RelationIdle /\ LayoutIdle /\ ErrIdle /\ CoordInit /\ MoreIdle
        /\ ReparseInit
InitRelation == FormIdle /\ TipIdle /\ ComboIdle /\ ParseIdle /\ LayoutIdle /\ ErrIdle /\ CoordInit /\ MoreIdle
        /\ RelationInit
InitCoord == FormIdle /\ TipIdle /\ OthersIdle
InitErr == FormIdle /\ TipIdle /\ ComboIdle /\ ParseIdle /\ RelationIdle /\ LayoutIdle /\ CoordInit /\ MoreIdle
        /\ ErrInit
InitLayout == FormIdle /\ TipIdle /\ ComboIdle /\ ParseIdle /\ RelationIdle /\ ErrIdle /\ CoordInit /\ MoreIdle
        /\ LayoutInit

NextForm ==
    \/ componentDidMount
    \/ \E p \in [form : Forms, version : Versions, other : BOOLEAN] : Form_componentDidUpdate(p)
    \/ \E g \in fGets : \E wellFormed, sync, rewritten \in BOOLEAN :
            parseForm(g, wellFormed, sync, rewritten)
    \/ \E cb \in fCallbacks : \E rewritten \in BOOLEAN : PreprocessorCallback(cb, rewritten)
    \/ \E g \in fGets : FormGetFail(g)
    \/ registerFormPreprocessor(EditLayerId)
    \/ removeFormPreprocessor(EditLayerId)
    \/ Form_componentWillUnmount

SpecForm == InitForm /\ [][NextForm]_vars

\* every GET is answered or fails, and every preprocessor that was handed a
\* callback invokes it
FormFairness ==
    /\ WF_vars(\E g \in fGets : \E wellFormed, sync, rewritten \in BOOLEAN :
                    parseForm(g, wellFormed, sync, rewritten))
    /\ WF_vars(\E cb \in fCallbacks : \E rewritten \in BOOLEAN :
                    PreprocessorCallback(cb, rewritten))

SpecFormLive == InitForm /\ [][NextForm]_vars /\ FormFairness

\* the form renderer some time after it was mounted: the document of an
\* earlier GET (numbered 0; the GETs counted are those made from here on) has
\* been parsed without preprocessor, its tree is committed and its relation
\* tables are pushed; no request is in flight
FormLoaded ==
    /\ fPhase = "mounted"
    /\ fProps \in [form : Forms, version : {0}, other : {FALSE}]
    /\ fState = CommitForm(ResetState(InitialFormState),
                           [get |-> 0, form |-> fProps.form, pre |-> FALSE])
    /\ fGets = {}
    /\ fGetCount = 0
    /\ fUuid = 0
    /\ fCallbacks = {}
    /\ FormPreprocessors = {}
    /\ relationTables = <<[get |-> 0, form |-> fProps.form]>>
    /\ reactBatched \in BOOLEAN
    /\ fLast = [op |-> "init", get |-> 0]

InitFormLoaded == TipIdle /\ OthersIdle /\ FormLoaded

NextFormLoaded ==
    \/ \E p \in [form : Forms, version : Versions, other : BOOLEAN] : Form_componentDidUpdate(p)
    \/ \E g \in fGets : \E wellFormed, sync, rewritten \in BOOLEAN :
            parseForm(g, wellFormed, sync, rewritten)
    \/ \E cb \in fCallbacks : \E rewritten \in BOOLEAN : PreprocessorCallback(cb, rewritten)
    \/ \E g \in fGets : FormGetFail(g)
    \/ registerFormPreprocessor(EditLayerId)
    \/ removeFormPreprocessor(EditLayerId)
    \/ Form_componentWillUnmount

SpecFormLoaded == InitFormLoaded /\ [][NextFormLoaded]_vars

NextTip ==
    \/ \E enabled \in BOOLEAN : \E newClick \in {"same", "none", "new"} :
         \E pixel \in Pixels : \E button \in Buttons :
            Tip_PropsUpdate(enabled, newClick, pixel, button)
    \/ Tip_componentDidUpdate
    \/ Tip_clearClicked
    \/ \E r \in tReqs : \E val \in Elevations : ElevationResponse(r, val)
    \/ \E r \in tReqs : MapInfoResponse(r)
    \/ \E r \in tReqs : LookupFail(r)
    \/ Tip_Unmount

SpecTip == InitTip /\ [][NextTip]_vars

NextCombo == Combo_renderWidget

SpecCombo == InitCombo /\ [][NextCombo]_vars

NextParse == Parse_parseForm

SpecParse == InitParse /\ [][NextParse]_vars

NextCoord ==
    \/ \E i \in Instances : Coord_componentDidMount(i)
    \/ \E i \in Instances : Coord_componentWillUnmount(i)
    \/ \E coordinate \in Coordinates : Map_pointermove(coordinate)

SpecCoord == InitCoord /\ [][NextCoord]_vars

InitRow == FormIdle /\ TipIdle /\ ComboIdle /\ ParseIdle /\ RelationIdle /\ LayoutIdle /\ ErrIdle
        /\ CoordInit /\ DragInit /\ RowInit

NextRow ==
    \/ Row_render
    \/ \E idx \in 0..(MaxRelRows - 1) : \E value \in RowValues \cup {<<>>} : Row_change(idx, value)

SpecRow == InitRow /\ [][NextRow]_vars

InitDrag == FormIdle /\ TipIdle /\ ComboIdle /\ ParseIdle /\ RelationIdle /\ LayoutIdle /\ ErrIdle
        /\ CoordInit /\ RowIdle /\ DragInit

NextDrag ==
    \/ \E offsetHeight \in StartHeights : \E clientY \in MouseYs :
            Drag_pointerdown(offsetHeight, clientY)
    \/ \E clientY \in MouseYs : Window_pointermove(clientY)
    \/ Window_pointerup

SpecDrag == InitDrag /\ [][NextDrag]_vars

NextErr == Err_buildErrMsg

SpecErr == InitErr /\ [][NextErr]_vars

NextLayout == Layout_renderLayout

SpecLayout == InitLayout /\ [][NextLayout]_vars

NextReparse ==
    \/ Parse_parseForm
    \/ \E doc \in OtherDocuments : Parse_otherDocument(doc)
    \/ Parse_again

SpecReparse == InitReparse /\ [][NextReparse]_vars

NextRelation == Relation_renderWidget

SpecRelation == InitRelation /\ [][NextRelation]_vars

\* ------------------------------------------------------------ form claims

\* C1: last-request-wins.  Once the tree of a load is committed, no step
\* replaces it by the tree of a load that was triggered earlier.
C1_SupersededNeverCommits ==
    [][(fState.formData # <<>> /\ fState'.formData # <<>>)
        => fState'.formData[1].get >= fState.formData[1].get]_vars

\* C2: when the GET of the most recently triggered load has failed, nothing
\* is rendered and no parsed tree is held.
C2_FailedLoadShowsNothing ==
    (fPhase = "mounted" /\ fLast.op = "getFail" /\ fLast.get = fGetCount)
        => (Render(fState) = "nothing" /\ fState.formData = <<>>)

\* C7 (form renderer): a result completing after unmount changes no component
\* state and pushes no relation tables to the store.
C7_NothingAppliedAfterUnmount ==
    [][fPhase = "unmounted" => (fState' = fState /\ relationTables' = relationTables)]_vars

\* C8: exactly one GET on mount and on every update whose form or feature
\* version differs from the previous props; no GET on any other step (other
\* updates, responses, failures, callbacks).
C8_OneGetPerTrigger ==
    [][IF fPhase = "constructed" /\ fPhase' = "mounted"
       THEN fGetCount' = fGetCount + 1
       ELSE IF fProps'.form # fProps.form \/ fProps'.version # fProps.version
            THEN fGetCount' = fGetCount + 1 /\ Cardinality(fGets') = Cardinality(fGets) + 1
            ELSE fGetCount' = fGetCount /\ fGets' \subseteq fGets]_vars

\* C8 witness: mount and one version change have issued two GETs, the second
\* of them has failed, and no GET is in flight afterwards.
C8_Witness ==
    /\ fLast.op = "getFail" /\ fLast.get = 2
    /\ fProps.version = 1
    /\ fGetCount = 2 /\ fGets = {}
\* ------------------------------------------------------------ tooltip claims

\* C3: right after componentDidUpdate has processed a right-click at a new
\* pixel, state.point is that click and elevation and extraInfo are empty.
C3_NewClickClearsAuxiliaryData ==
    (tLast.op = "didUpdate" /\ tLast.branch = "newPoint")
        => /\ tState.point = tProps.click
           /\ tState.elevation = <<>>
           /\ tState.extraInfo = <<>>

\* C4: a componentDidUpdate whose click has the pixel of the click of the
\* previous props issues no elevation request and no map-info request.
C4_SamePixelIssuesNoRequest ==
    [][(tPending /\ tProps.click # <<>> /\ tPrevProps.click # <<>>
            /\ tProps.click[1].pixel = tPrevProps.click[1].pixel)
        => (tReqCount' = tReqCount /\ tReqs' \subseteq tReqs)]_vars

\* C4 witness: a second right-click event at the pixel of the previous one has
\* been processed while the tool is enabled and its popup is shown.
C4_Witness ==
    /\ tLast.op = "didUpdate" /\ tLast.branch = "samePixel"
    /\ tProps.enabled /\ tProps.click[1].button = 2 /\ tProps.click[1].id = 2
    /\ tState.point # <<>> /\ tState.point[1].id = 1
    /\ tReqCount = 2

\* C5: when a lookup issued for the point currently shown has failed,
\* state.point is unchanged and the popup has no elevation row (respectively
\* no service-supplied rows).
C5_FailedLookupLeavesNoRow ==
    (tLast.op = "fail" /\ tState.point # <<>> /\ tState.point[1].id = tLast.for)
        => /\ tLast.branch = "elevation" => ~ElevationRow(tState)
           /\ tLast.branch = "mapinfo" => ~ExtraRows(tState)

\* C6: in every settled state, if the tool is disabled or map.click is absent
\* or is not a button-2 click, state.point is null and no popup is rendered.
C6_PopupSuppressed ==
    (~tPending /\ (~tProps.enabled \/ tProps.click = <<>> \/ tProps.click[1].button # 2))
        => (tState.point = <<>> /\ ~PopupShown(tState))

\* C6 witness: a settled state with the tool enabled and a left click as the
\* current click, after a popup had been shown and received its elevation.
C6_Witness ==
    /\ ~tPending /\ tMounted
    /\ tProps.enabled /\ tProps.click # <<>> /\ tProps.click[1].button = 0
    /\ tState.point = <<>> /\ tState.elevation # <<>>
\* ------------------------------------------------------------ combo claims

\* a, b, c, d survive the composition of the name: none contains "__" and
\* none of a, b, c ends with "_"
PlainTokens(tokens) ==
    /\ \A i \in DOMAIN tokens : IndexOf(tokens[i], Sep) = 0
    /\ \A i \in 1..(Len(tokens) - 1) :
            tokens[i] = <<>> \/ tokens[i][Len(tokens[i])] # "_"

\* C10 as claimed: the combo rendered for a widget named kvrel__a__b__c__d has
\* field id a and lookup relation key exactly b:c:d.
C10_KvrelKeyIsBCD ==
    (kField # <<>> /\ Len(kTokens) = 4)
        => /\ kField[1].fieldId = kTokens[1]
           /\ kField[1].keyvalrel = <<kTokens[2] \o Colon \o kTokens[3] \o Colon \o kTokens[4]>>

\* C10 as amended: for tokens a, b, c, d that contain no "__" and of which a,
\* b, c do not end with "_", the field id is a and the lookup relation key is
\* props.mapPrefix followed by b:c:d.
C10_KvrelKeyIsPrefixedBCD ==
    (kField # <<>> /\ Len(kTokens) = 4 /\ PlainTokens(kTokens))
        => /\ kField[1].fieldId = kTokens[1]
           /\ kField[1].keyvalrel =
                <<kPrefix \o kTokens[2] \o Colon \o kTokens[3] \o Colon \o kTokens[4]>>

\* C10 witness: a combo named kvrel__a___c___c__b_ has been rendered under the
\* map prefix "m.".
C10_Witness ==
    /\ kField # <<>>
    /\ kTokens = <<(<<"a">>), (<<"_", "c">>), (<<"_", "c">>), (<<"b", "_">>)>>
    /\ kPrefix = <<"m", ".">>
    /\ kField[1].keyvalrel # <<>>
\* ------------------------------------------------------------ parse claims

RECURSIVE WidgetsOf(_)
RECURSIVE WidgetsOfLayout(_)

\* the widget nodes of a tree: the widget, the widgets in the items of its
\* layout (through nested layouts) and its child widgets, at any depth
WidgetsOf(w) ==
    {w} \cup (IF w.layout = <<>> THEN {} ELSE WidgetsOfLayout(w.layout[1]))
        \cup UNION {WidgetsOf(w.widget[i]) : i \in DOMAIN w.widget}

WidgetsOfLayout(l) ==
    UNION {IF l.item[i].widget # <<>> THEN WidgetsOf(l.item[i].widget[1])
           ELSE IF l.item[i].layout # <<>> THEN WidgetsOfLayout(l.item[i].layout[1])
           ELSE {} : i \in DOMAIN l.item}

\* C9: after parseForm every widget node of the tree has a property map, an
\* attribute map and a non-empty name.
C9_WidgetsNormalized ==
    pParsed # <<>> =>
        \A w \in WidgetsOf(pParsed[1].ui.widget) :
            /\ Len(w.property) = 1
            /\ Len(w.attribute) = 1
            /\ w.name # <<>>

\* C9 witness: a parsed document whose unnamed root holds a tab widget with a
\* nested group box around a text edit that had neither name nor property.
C9_Witness ==
    /\ pParsed # <<>>
    /\ pDoc.name = <<>>
    /\ \E w \in WidgetsOf(pDoc) : w.class = "QTextEdit" /\ w.name = <<>> /\ w.property = <<>>
    /\ \E w \in WidgetsOf(pParsed[1].ui.widget) :
            w.class = "QTabWidget" /\ w.widget[1].layout[1].item[1].widget[1].class = "QGroupBox"
    /\ Cardinality(WidgetsOf(pParsed[1].ui.widget)) >= 6

\* the token lists of the relation widgets the documents are composed of
NamedRelations ==
    {<<(<<"t">>), (<<"f">>)>>,
     <<(<<"u">>), (<<"f">>), (<<"s">>), (<<"1">>)>>,
     <<(<<"v">>), (<<"f">>), (<<>>), (<<"1">>)>>}

\* the token at position i of a token list, absent when omitted or empty
GivenToken(toks, i) == IF Len(toks) >= i /\ toks[i] # <<>> THEN <<toks[i]>> ELSE <<>>

C15_RowControlsGuarded ==
    rTable # <<>> /\ rTable[1] # <<>> =>
        \A idx \in DOMAIN rTable[1][1].rows :
            LET row == rTable[1][1].rows[idx]
                editable == ~rProps.readOnly /\ ~RelationDisabled(rWidget)
            IN  /\ row.delete => editable
                /\ row.reorder =>
                        /\ editable
                        /\ Len(rTokens) >= 3 /\ rTokens[3] # <<>>
                        /\ ~(Len(rTokens) >= 4 /\ rTokens[4] # <<>>)

\* C15 witness: a relation nrel__t__t__t with two rows rendered in an editable
\* form, each row with reorder and delete controls.
C15_Witness ==
    /\ rTable # <<>> /\ rTable[1] # <<>>
    /\ rTokens = <<(<<"t">>), (<<"t">>), (<<"t">>)>>
    /\ ~rProps.readOnly /\ rProps.rows = 2
    /\ \A idx \in 1..2 : rTable[1][1].rows[idx].reorder /\ rTable[1][1].rows[idx].delete
\* ------------------------------------------------------------ layout claims

\* the grid layout has been rendered
GridRendered == lStyle # <<>> /\ lLayout.class = "QGridLayout"

\* the items of the layout placed in a column, and in a row
ItemsInColumn(c) == {lLayout.item[i] : i \in {j \in DOMAIN lLayout.item : lLayout.item[j].column = c}}
ItemsInRow(r) == {lLayout.item[i] : i \in {j \in DOMAIN lLayout.item : lLayout.item[j].row = r}}

\* the layout has a horizontal spacer
HasHorizontalSpacer == \E i \in DOMAIN lLayout.item : IsSpacer(lLayout.item[i], "Qt::Horizontal")

\* the column templates computed, and the column with 0-based index c
Columns == lStyle[1].gridTemplateColumns[1]
Rows == lStyle[1].gridTemplateRows[1]

\* C12 as claimed: a grid layout with a horizontal spacer among its items has
\* 'auto' for every column.
C12_SpacerMakesAllAuto ==
    (GridRendered /\ HasHorizontalSpacer) =>
        \A c \in DOMAIN Columns : Columns[c] = "auto"

\* C12 as amended: in a grid layout with a horizontal spacer among its items
\* exactly the columns that hold a horizontal spacer are 'auto'; every other
\* column is fit-content(round(100 / columnCount)%).
C12_OnlySpacerColumnsAuto ==
    (GridRendered /\ HasHorizontalSpacer) =>
        \A c \in DOMAIN Columns :
            Columns[c] = IF \E item \in ItemsInColumn(c - 1) : IsSpacer(item, "Qt::Horizontal")
                         THEN "auto" ELSE FitContent(Len(Columns))

\* C12 witness: a grid with a text edit in column 0 and a horizontal spacer in
\* column 1 has the columns fit-content(50%) and auto.
C12_Witness ==
    /\ GridRendered
    /\ Len(lLayout.item) = 2
    /\ ClassOf(lLayout.item[1]) = "QTextEdit" /\ lLayout.item[1].column = 0
    /\ lLayout.item[1].colspan = 0
    /\ IsSpacer(lLayout.item[2], "Qt::Horizontal") /\ lLayout.item[2].column = 1
    /\ Columns = <<"fit-content(50%)", "auto">>

\* a widget of a class that is not compact for columns, with column span 1
\* (given as 1, or not given: 0)
WideWidget(item) ==
    item.widget # <<>> /\ item.widget[1].class \notin hFitWidgets /\ item.colspan \in {0, 1}

\* C18 as claimed: a column is 'auto' exactly if it contains a horizontal
\* spacer or a widget of a non-compact class with column span 1, every other
\* column is fit-content(round(100 / columnCount)%), and all columns are
\* 'auto' when no column qualifies.
C18_ColumnRule ==
    GridRendered =>
        LET Qualifies(c) == \E item \in ItemsInColumn(c - 1) :
                                IsSpacer(item, "Qt::Horizontal") \/ WideWidget(item)
        IN  \A c \in DOMAIN Columns :
                Columns[c] = IF \A d \in DOMAIN Columns : ~Qualifies(d) THEN "auto"
                             ELSE IF Qualifies(c) THEN "auto"
                             ELSE FitContent(Len(Columns))

\* C18 as amended: a column is 'auto' exactly if it contains a horizontal
\* spacer or, in a layout without horizontal spacer, an item of column span 1
\* that is not a widget of a compact class (a widget of another class, a
\* nested layout, a vertical spacer); every other column is
\* fit-content(round(100 / columnCount)%), columnCount being the highest
\* column index in use plus one; all columns are 'auto' when none qualifies.
C18_ColumnRuleWithoutSpacer ==
    GridRendered =>
        LET Qualifies(c) == \E item \in ItemsInColumn(c - 1) :
                                \/ IsSpacer(item, "Qt::Horizontal")
                                \/ /\ ~HasHorizontalSpacer
                                   /\ ClassOf(item) \notin hFitWidgets
                                   /\ item.colspan \in {0, 1}
        IN  /\ Len(Columns) = 1 + CHOOSE m \in Cells :
                    /\ \E i \in DOMAIN lLayout.item : lLayout.item[i].column = m
                    /\ \A i \in DOMAIN lLayout.item : lLayout.item[i].column <= m
            /\ \A c \in DOMAIN Columns :
                Columns[c] = IF \A d \in DOMAIN Columns : ~Qualifies(d) THEN "auto"
                             ELSE IF Qualifies(c) THEN "auto"
                             ELSE FitContent(Len(Columns))

\* C18 witness: a grid with a label in column 0 and a line edit in column 1
\* has the columns fit-content(50%) and auto.
C18_Witness ==
    /\ GridRendered
    /\ Len(lLayout.item) = 2
    /\ ClassOf(lLayout.item[1]) = "QLabel" /\ lLayout.item[1].column = 0
    /\ ClassOf(lLayout.item[2]) = "QLineEdit" /\ lLayout.item[2].column = 1
    /\ Columns = <<"fit-content(50%)", "auto">>

\* C19: a row is 'auto' exactly if it contains a vertical spacer, a relation
\* table widget, a child layout flagged verticalFill or a widget of row span 1
\* whose class is not compact for rows, whatever the order of the items;
\* every other row is fit-content(round(100 / rowCount)%), and all rows are
\* 'auto' when no row qualifies.
C19_RowRule ==
    GridRendered =>
        LET Qualifies(r) == \E item \in ItemsInRow(r - 1) :
                \/ IsSpacer(item, "Qt::Vertical")
                \/ item.widget # <<>> /\ StartsWith(item.widget[1].name, S_nrel \o Sep)
                \/ LayoutOf(item) # <<>> /\ LayoutOf(item)[1].verticalFill
                \/ /\ item.widget # <<>>
                   /\ item.widget[1].class \notin vFitWidgets
                   /\ item.rowspan \in {0, 1}
        IN  \A r \in DOMAIN Rows :
                Rows[r] = IF \A q \in DOMAIN Rows : ~Qualifies(q) THEN "auto"
                          ELSE IF Qualifies(r) THEN "auto"
                          ELSE FitContent(Len(Rows))
\* ------------------------------------------------------------ error message claims

\* ':' and a newline, then the entries, each prefixed with ' - ', joined by
\* newlines; nothing for an empty list
DetailPart(entries) ==
    IF entries = <<>> THEN ""
    ELSE ":\n" \o JoinStrings([i \in DOMAIN entries |-> " - " \o entries[i]], "\n")

\* C13: the message is the base error followed, for each non-empty list
\* (geometry_errors, data_errors, validation_errors, in this order), by ':',
\* a newline and the entries of the list, each prefixed with ' - ' and joined
\* by newlines; error 'bad' with data_errors [x, y] gives 'bad:\n - x\n - y'.
C13_MessageFormat ==
    eMessage # <<>> =>
        LET details == IF eRecord.error_details # <<>> THEN eRecord.error_details[1]
                       ELSE [geometry_errors |-> <<>>, data_errors |-> <<>>,
                             validation_errors |-> <<>>]
            geometry == [i \in DOMAIN details.geometry_errors |->
                            details.geometry_errors[i].reason \o " at "
                                \o details.geometry_errors[i].location]
        IN  /\ eMessage[1] = eRecord.error \o DetailPart(geometry)
                                \o DetailPart(details.data_errors)
                                \o DetailPart(details.validation_errors)
            /\ (details.geometry_errors = <<>> /\ details.data_errors = <<"x", "y">>
                    /\ details.validation_errors = <<>>)
                => eMessage[1] = "bad:\n - x\n - y"
\* ------------------------------------------------------------ reparse claims

RECURSIVE ShapeOf(_)
RECURSIVE ShapeOfLayout(_)

\* the nesting of a parsed tree without its names: classes, child widgets,
\* layouts with their verticalFill flags and items
ShapeOf(w) ==
    [class |-> w.class,
     layout |-> IF w.layout = <<>> THEN <<>> ELSE <<ShapeOfLayout(w.layout[1])>>,
     widget |-> [i \in DOMAIN w.widget |-> ShapeOf(w.widget[i])]]

ShapeOfLayout(l) ==
    [class |-> l.class,
     verticalFill |-> l.verticalFill,
     item |-> [i \in DOMAIN l.item |->
                IF l.item[i].widget # <<>> THEN <<"widget", ShapeOf(l.item[i].widget[1])>>
                ELSE IF l.item[i].layout # <<>>
                THEN <<"layout", ShapeOfLayout(l.item[i].layout[1])>>
                ELSE IF l.item[i].spacer # <<>> THEN <<"spacer", l.item[i].spacer[1]>>
                ELSE <<"empty", <<>>>>]]

\* the key sets of the registries, the relation descriptors and the nesting
Structure(parsed) ==
    [fields |-> {e.key : e \in parsed.fields},
     buttons |-> {e.key : e \in parsed.buttons},
     nrels |-> {e.key : e \in parsed.nrels},
     externalFields |-> parsed.externalFields,
     relationTables |-> parsed.relationTables,
     shape |-> ShapeOf(parsed.ui.widget)]

C16_ListenersAreMounted ==
    /\ {cListeners[n] : n \in DOMAIN cListeners} = {i \in Instances : cPhase[i] = "mounted"}
    /\ Len(cListeners) = Cardinality({i \in Instances : cPhase[i] = "mounted"})
    /\ cLast.op = "pointermove" => \A i \in cLast.invoked : cPhase[i] = "mounted"

\* C16 witness: one instance was mounted, received a coordinate and was
\* unmounted; a later pointer-move event reached only the other instance.
C16_Witness ==
    /\ cPhase[1] = "unmounted" /\ cPhase[2] = "mounted"
    /\ cState[1].mousePos = <<0, 0>> /\ cState[2].mousePos = <<1, 2>>
    /\ cLast = [op |-> "pointermove", invoked |-> {2}]
\* ---------------------------------------------------------------- C17
\* C17: the form tree changes only by a commit of parseForm or of a
\* preprocessor callback.  A parse made while no preprocessor is registered
\* for editLayerId commits the raw parse of its document; a parse made while
\* one is registered commits nothing before the callback is invoked (a
\* callback that is still to come leaves the tree as it was), and a callback
\* commits the value it passes, for the document of its own parse.
C17_PreprocessorGate ==
    [][ /\ (fLast'.op = "parseForm" /\ fCallbacks' # fCallbacks)
            => fState'.formData = fState.formData
        /\ fState'.formData # fState.formData
            => /\ Len(fState'.formData) = 1
               /\ fLast'.op \in {"parseForm", "callback"}
               /\ fState'.formData[1].get = fLast'.get
               /\ (fLast'.op = "parseForm" /\ EditLayerId \notin FormPreprocessors)
                     => /\ fState'.formData[1].pre = FALSE
                        /\ \E g \in fGets \ fGets' :
                              fState'.formData[1] = ParsedTree(g)
               /\ (fLast'.op = "parseForm" /\ EditLayerId \in FormPreprocessors)
                     => /\ fCallbacks' = fCallbacks
                        /\ \E g \in fGets \ fGets' :
                              /\ fState'.formData[1].get = g.id
                              /\ fState'.formData[1].form = g.form
               /\ fLast'.op = "callback"
                     => \E cb \in fCallbacks \ fCallbacks' :
                           /\ fState'.formData[1].get = cb.get
                           /\ fState'.formData[1].form = cb.form
      ]_vars

\* a rewritten tree passed to a callback is the committed form tree, after the
\* preprocessor was removed and while no GET is in flight
C17_Witness ==
    /\ fLast.op = "callback"
    /\ fState.formData # <<>>
    /\ fState.formData[1].pre = TRUE
    /\ fState.formData[1].get = fLast.get
    /\ EditLayerId \notin FormPreprocessors

\* ---------------------------------------------------------------- C20
RECURSIVE LayoutsIn(_)
RECURSIVE LayoutsOfWidget(_)

\* the layout nodes of a subtree: the layout, the layouts nested in its items
\* and the layouts of the widgets in its items, at any depth
LayoutsIn(l) ==
    {l} \cup UNION {IF l.item[i].layout # <<>> THEN LayoutsIn(l.item[i].layout[1])
                    ELSE IF l.item[i].widget # <<>> THEN LayoutsOfWidget(l.item[i].widget[1])
                    ELSE {} : i \in DOMAIN l.item}

LayoutsOfWidget(w) ==
    (IF w.layout = <<>> THEN {} ELSE LayoutsIn(w.layout[1]))
        \cup UNION {LayoutsOfWidget(w.widget[i]) : i \in DOMAIN w.widget}

\* a parsed layout holds a vertical spacer among its own items
HoldsVerticalSpacer(l) ==
    \E i \in DOMAIN l.item :
        /\ l.item[i].spacer # <<>>
        /\ "orientation" \in DOMAIN l.item[i].spacer[1].property
        /\ l.item[i].spacer[1].property["orientation"] = "Qt::Vertical"

\* the subtree of a parsed layout contains a vertical spacer, a relation
\* table widget, or a widget without layout of a class that is not compact
SubtreeAsksForHeight(l) ==
    \/ \E l2 \in LayoutsIn(l) : HoldsVerticalSpacer(l2)
    \/ \E w \in WidgetsOfLayout(l) :
          \/ StartsWith(w.name, S_nrel \o Sep)
          \/ w.layout = <<>> /\ w.class \notin vFitWidgets

\* C20: after parseForm a layout is flagged verticalFill iff its subtree
\* contains a vertical spacer, a relation table widget, or a widget without
\* layout whose class is not compact; a layout holding only compact widgets
\* (a combo box with static items among them) is not flagged.
C20_VerticalFill ==
    pParsed # <<>> =>
        \A l \in LayoutsOfWidget(pParsed[1].ui.widget) :
            l.verticalFill <=> SubtreeAsksForHeight(l)

\* ---------------------------------------------------------------- C21
\* C21: after parseForm every widget that has a name in the document, at any
\* position of the tree (pages of tab and stacked widgets included), is entered
\* in the widgets registry under that name, and every layout that has a name
\* in the document keeps it.
C21_GivenNamesKept ==
    pParsed # <<>> =>
        /\ \A w \in WidgetsOf(pDoc) :
              w.name # <<>> => \E e \in pParsed[1].widgets : e.key = w.name
        /\ \A l \in LayoutsOfWidget(pDoc) :
              l.name # <<>> =>
                 \E l2 \in LayoutsOfWidget(pParsed[1].ui.widget) : l2.name = l.name

\* ---------------------------------------------------------------- C22
\* C22: the widget of the rows is made for the field f of table t (it is
\* named t__f, is a kvrel combo kvrel__t__f__..., or a button of the group
\* t__f): the element rendered for row i shows the value of property f of row i
\* (for a button of a group: it is checked iff that value is the button's
\* name), and a change of it is reported as
\* updateRelationField(mapPrefix + t, i, f, value).
C22_RowRoundTrip ==
    /\ wShown # <<>> =>
          \A i \in DOMAIN wRows :
             LET el == wShown[1][i]
                 stored == OrEmpty(Lookup(wRows[i], wField))
             IN  IF el.checked # <<>> THEN el.checked[1] = (stored = el.value)
                 ELSE el.value = stored
    /\ wUpdate # <<>> =>
          /\ wUpdate[1].dataset = RowPrefix \o wTable
          /\ wUpdate[1].fieldname = wField
          /\ wUpdate[1].idx + 1 \in DOMAIN wRows

\* ---------------------------------------------------------------- C23
\* C23: right after the elevation request of the point currently shown has
\* succeeded, the popup has an elevation row, and the row carries one of the
\* returned values rounded to elevationPrecision decimals (0 m included).
C23_ElevationRowShown ==
    (tLast.op = "elevation" /\ tMounted /\ tState.point # <<>>
        /\ tState.point[1].id = tLast.for)
        => /\ ElevationRow(tState)
           /\ tState.elevation[1].val \in {0, 80}

\* ---------------------------------------------------------------- C24
\* C24: a pointerdown on the resize handle registers one pointermove and one
\* pointerup listener; after a pointerup no listener registered by a drag
\* remains and the text selection of the body is restored; a pointermove never
\* sets the container height below 30px.
C24_ResizeDrag ==
    [][ /\ dLast'.op = "pointerdown" =>
              /\ Cardinality({l \in dListeners' \ dListeners : l.type = "pointermove"}) = 1
              /\ Cardinality({l \in dListeners' \ dListeners : l.type = "pointerup"}) = 1
              /\ dListeners \subseteq dListeners'
        /\ dLast'.op = "pointerup" =>
              /\ dListeners' = {}
              /\ dListeners # {} => dUserSelect' = ""
        /\ (dLast'.op = "pointermove" /\ dHeight' # <<>>) => dHeight'[1] >= 30
      ]_vars

\* C24 witness: a drag that started at height 40 was moved up by 50px, the
\* height was held at 30px, and the drag has ended: no listener is left, text
\* can be selected again.
C24_Witness ==
    /\ dLast.op = "pointerup" /\ dLast.removed # {}
    /\ Len(dDrags) = 1 /\ dDrags[1] = [startHeight |-> 40, startMouseY |-> 50]
    /\ dHeight = <<30>>
    /\ dListeners = {}
    /\ dUserSelect = ""

\* ---------------------------------------------------------------- C25
\* C25: whenever the popup is shown, the elevation row and the service rows
\* in it come from lookups issued for the click recorded in state.point.
C25_RowsBelongToPoint ==
    (tMounted /\ PopupShown(tState)) =>
        /\ ElevationRow(tState) => tState.elevation[1].for = tState.point[1].id
        /\ ExtraRows(tState) => tState.extraInfo[1].for = tState.point[1].id

\* ---------------------------------------------------------------- C26
\* C26: when componentDidUpdate handles a new click event (map.click differs
\* from the one of the previous props) that is a right-click, while the tool
\* is enabled, state.point is afterwards a click at the pixel of that event.
C26_RightClickShowsPoint ==
    [][(tMounted /\ tPending /\ tProps.enabled
            /\ tProps.click # <<>> /\ tProps.click[1].button = 2
            /\ tPrevProps.click # tProps.click)
        => /\ tState'.point # <<>>
           /\ tState'.point[1].pixel = tProps.click[1].pixel]_vars

\* ---------------------------------------------------------------- C27
\* C27: whenever the mounted form renderer is loading, it eventually is not
\* loading any more (or is unmounted), given that every response arrives and
\* every preprocessor invokes its callback.
C27_LoadingEnds ==
    (fPhase = "mounted" /\ fState.loading) ~> (~fState.loading \/ fPhase # "mounted")

\* ---------------------------------------------------------------- C28
\* C28: whenever the mounted form renderer holds a committed form tree and is
\* not loading, the relation tables pushed last through setRelationTables are
\* those of the parse that produced the tree.
C28_TablesMatchTree ==
    (fPhase = "mounted" /\ fState.formData # <<>> /\ ~fState.loading)
        => /\ relationTables # <<>>
           /\ relationTables[1].get = fState.formData[1].get

====
